---- MODULE Spec2Model ----
(***************************************************************************)
(* A model of the stores of SimpleManus:                                   *)
(*   - RedisFileSketchPadBackend (src/context/sketch_pad.py): a key-value  *)
(*     store kept in Redis, with a JSON snapshot file;                     *)
(*   - ConversationContext (src/context/context.py): the bounded history   *)
(*     with summarize-on-overflow;                                         *)
(*   - Message (src/context/schemas.py): the validated chat message.       *)
(* Time is a counter of seconds (now); a call takes no time.               *)
(***************************************************************************)
EXTENDS Integers, Sequences, FiniteSets, TLC

\* ------------------------------------------------------------------ bounds
MaxTime == 3        \* the clock stops here
MaxAccess == 2      \* reads of one item (access_count) the model follows
MaxHistory == 3     \* messages the model lets a history without summarizer hold
MaxExternal == 2    \* length of an external message list
MaxLength == 2      \* the largest max_history_length configured
MaxSummary == 3     \* tokens of conversation_summary before the last compaction
MaxSaved == 3       \* messages the context file holds
MaxStored == 1      \* Message objects stored
MaxObjects == 2     \* Conversation objects, and backends of each kind, built
MaxClock == 2       \* the clock of the managers stops here
MaxPackages == 3    \* packages of one stream

\* ------------------------------------------------------------ value domains
NoneInt == -1               \* Python None where an int / datetime is optional
NoneStr == "<None>"         \* Python None where a str is optional
AllKeys == {"a", "b", "c", "x:tag:y"}
Values == {"v1", "v2"}
Tags == {"t1", "t2"}
\* (value, summary) pairs a caller writes
Writes == {[value |-> "v1", summary |-> NoneStr], [value |-> "v2", summary |-> "s"]}
TTLs == {NoneInt, 0, 1, 2}  \* ttl: Optional[int]

VARIABLES
    now,        \* datetime.now(), in seconds
    pad,        \* the Redis keyspace of one sketch pad: data keys and tag sets
    file,       \* the snapshot file of the sketch pad (self.file_path)
    ret,        \* the last sketch pad call and what it returned
    written,    \* per key, the last set_item not yet deleted: [ts, ttl]
    persisted,  \* the items the pad held when persist() last wrote the file
    shared,     \* one Redis database under the pads of two sessions
    ctx,        \* the ConversationContext: its configuration, history, summary
    ctxFile,    \* the context file (self.context_file)
    cret,       \* the last ConversationContext call and how it ended
    stored,     \* the Message objects handed to store_message
    mret,       \* the last Message(...) construction and how it ended
    agent,      \* one turn of the agent: the LLM layer's stream and its list
    lock,       \* the sketch pad's self._lock: the thread that holds it
    thr,        \* per thread, where it is inside a sketch pad call
    current,    \* _current_conversation, the module's global
    mgr,        \* the three managers: their active maps, and the files
    task,       \* per task, where it is inside a manager call or a scope
    mgret       \* the last manager or scope call and how it ended

padvars == <<now, pad, file, ret, written, persisted, shared>>
ctxvars == <<ctx, ctxFile, cret>>
msgvars == <<stored, mret, agent>>
thrvars == <<lock, thr>>
mgrvars == <<current, mgr, task, mgret>>
vars == <<padvars, ctxvars, msgvars, thrvars, mgrvars>>

\* ----------------------------------------------------------- Redis, items
\* f with k bound to v (dict / keyspace assignment)
Put(f, k, v) == [x \in (DOMAIN f) \cup {k} |-> IF x = k THEN v ELSE f[x]]
\* f without the keys of D
Drop(f, D) == [x \in (DOMAIN f) \ D |-> f[x]]
EmptyMap == [x \in {} |-> NoneInt]

NoItem == [none |-> TRUE]

\* _get_content_hash: md5 of json.dumps(value), taken as injective
ContentHash(value) == <<"md5", value>>

\* `if ttl:` / `if tags:` / `if summary:` truthiness of an Optional[int]
Truthy(ttl) == ttl # NoneInt /\ ttl # 0

\* ":tag:" in "sketch_pad:<id>:<key>" (the id holds no ":tag:")
HasTagMarker(key) == key \in {"x:tag:y"}

\* The key of the Redis set of a tag, relative to the pad: "tag:<tag>"
TagKeyName(tag) == "tag:" \o tag

EmptyStore == [redis |-> EmptyMap, tagIndex |-> [t \in Tags |-> {}]]

\* redis.set(name, value): stores the string and discards any time to live
RedisSet(S, key, item) ==
    [S EXCEPT !.redis = Put(@, key, [item |-> item, expire |-> NoneInt])]

\* redis.expire(name, ttl) at time t
RedisExpire(S, key, ttl, t) ==
    IF key \in DOMAIN S.redis
    THEN [S EXCEPT !.redis[key].expire = t + ttl]
    ELSE S

\* redis.sadd(tag_key, key) for every tag of tags
RedisSaddAll(S, tags, key) ==
    [S EXCEPT !.tagIndex = [t \in Tags |-> IF t \in tags THEN @[t] \cup {key} ELSE @[t]]]

\* redis.srem(tag_key, key) for every tag of tags
RedisSremAll(S, tags, key) ==
    [S EXCEPT !.tagIndex = [t \in Tags |-> IF t \in tags THEN @[t] \ {key} ELSE @[t]]]

\* Redis drops a key once its time to live has run out
RedisPurge(S, t) ==
    [S EXCEPT !.redis = Drop(@, {k \in DOMAIN @ : @[k].expire # NoneInt /\ @[k].expire <= t})]

\* SketchPadItem(...) as set_item builds it
NewItem(value, ttl, summary, tags, t) ==
    [value |-> value,
     timestamp |-> t,
     summary |-> summary,
     expires_at |-> IF Truthy(ttl) THEN t + ttl ELSE NoneInt,
     access_count |-> 0,
     last_accessed |-> NoneInt,
     tags |-> tags,
     content_type |-> "text",
     content_hash |-> ContentHash(value)]

\* ------------------------------------------------------- store operations
\* set_item that leaves a key that is already there alone (SET ... NX)
set_item_nx(S, key, value, ttl, summary, tags, t) ==
    IF key \in DOMAIN S.redis
    THEN [store |-> S, key |-> key]
    ELSE [store |-> RedisSaddAll(RedisSet(S, key, NewItem(value, ttl, summary, tags, t)),
                                 tags, key),
          key |-> key]

set_item(S, key, value, ttl, summary, tags, t) ==
    LET item == NewItem(value, ttl, summary, tags, t)
        S1 == RedisSet(S, key, item)
        S2 == IF Truthy(ttl) THEN RedisExpire(S1, key, ttl, t) ELSE S1
        S3 == IF tags # {} THEN RedisSaddAll(S2, tags, key) ELSE S2
    IN  [store |-> S3, key |-> key]

get_item(S, key, t) ==
    IF key \notin DOMAIN S.redis
    THEN [store |-> S, item |-> NoItem]
    ELSE LET item == [S.redis[key].item EXCEPT !.access_count = @ + 1,
                                               !.last_accessed = t]
         IN  [store |-> RedisSet(S, key, item), item |-> item]

get_value(S, key, t) ==
    LET g == get_item(S, key, t)
    IN  [store |-> g.store,
         value |-> IF g.item = NoItem THEN NoneStr ELSE g.item.value]

\* get_item called n times in a row on one key
RECURSIVE get_item_n(_, _, _, _)
get_item_n(S, key, n, t) ==
    IF n = 0 THEN S ELSE get_item_n(get_item(S, key, t).store, key, n - 1, t)

\* get_item called reads[k] times on every key k of a set, in any order
RECURSIVE get_items(_, _, _, _)
get_items(S, ks, reads, t) ==
    IF ks = {} THEN S
    ELSE LET k == CHOOSE x \in ks : TRUE
         IN  get_items(get_item_n(S, k, reads[k], t), ks \ {k}, reads, t)

delete(S, key, t) ==
    LET g == get_item(S, key, t)
        S1 == IF g.item # NoItem /\ g.item.tags # {}
              THEN RedisSremAll(g.store, g.item.tags, key)
              ELSE g.store
    IN  [store |-> [S1 EXCEPT !.redis = Drop(@, {key})],
         result |-> key \in DOMAIN S1.redis]

exists(S, key) == key \in DOMAIN S.redis

\* keys(None): every Redis key under "sketch_pad:<id>:", tag sets included
keys(S) ==
    (DOMAIN S.redis) \cup {TagKeyName(tg) : tg \in {x \in Tags : S.tagIndex[x] # {}}}

clear(S) == EmptyStore

\* search_by_tags; first is list(tags)[0], any element of tags.
\* The result is the set of the (key, item) pairs appended to the list.
search_by_tags(S, tags, match_all, first, t) ==
    IF match_all
    THEN IF tags = {}
         THEN [store |-> S, result |-> {}]
         ELSE LET cand == S.tagIndex[first]
                  S1 == get_items(S, cand, [k \in cand |-> 1], t)
              IN  [store |-> S1,
                   result |-> {<<k, S1.redis[k].item>> :
                                 k \in {c \in cand \cap DOMAIN S.redis :
                                          tags \subseteq S.redis[c].item.tags}}]
    ELSE LET members == UNION {S.tagIndex[tg] : tg \in tags}
             reads == [k \in members |-> Cardinality({tg \in tags : k \in S.tagIndex[tg]})]
             S1 == get_items(S, members, reads, t)
         IN  [store |-> S1,
              result |-> UNION {
                  {<<k, [S.redis[k].item EXCEPT !.access_count = @ + i,
                                                !.last_accessed = t]>> :
                     i \in 1..reads[k]} : k \in members \cap DOMAIN S.redis}]

\* str.lower() on the words of the model
Lower(w) == CASE w = "V1" -> "v1" [] w = "A" -> "a" [] w = "Q" -> "q" [] OTHER -> w

\* searchable_text of search_by_content: the value when it is a str, the
\* summary, the tags; a text is the set of its words, and a query (one
\* word) is contained in it when it is one of them
searchable_text(item) ==
    {item.value} \cup (IF item.summary # NoneStr THEN {item.summary} ELSE {}) \cup item.tags

\* `query_lower in searchable_text.lower()`
ContentMatches(item, query) == Lower(query) \in {Lower(w) : w \in searchable_text(item)}

\* The loop of search_by_content over all_keys, in the order Redis listed
\* them: names with ":tag:" are skipped, get_item is called on every other
\* key, a match is appended and the loop ends once len(results) >= limit
RECURSIVE search_scan(_, _, _, _, _, _)
search_scan(S, all_keys, query, limit, results, t) ==
    IF all_keys = <<>> THEN [store |-> S, result |-> results]
    ELSE LET key == Head(all_keys)
             g == get_item(S, key, t)
             hit == g.item # NoItem /\ ContentMatches(g.item, query)
             res == IF hit THEN Append(results, <<key, g.item>>) ELSE results
         IN  IF HasTagMarker(key) THEN search_scan(S, Tail(all_keys), query, limit, results, t)
             ELSE IF hit /\ Len(res) >= limit THEN [store |-> g.store, result |-> res]
             ELSE search_scan(g.store, Tail(all_keys), query, limit, res, t)

\* search_by_content(query, limit); all_keys is redis.keys(pattern), whose
\* order Redis does not define (the tag sets among them hold no item)
search_by_content(S, query, limit, all_keys, t) ==
    search_scan(S, all_keys, query, limit, <<>>, t)

\* Keys of the pairs a search returned
ResultKeys(result) == {p[1] : p \in result}

\* ------------------------------------------------ snapshot: dump and load
\* A datetime / Optional[datetime] field as model_dump() gives it
PyDt(t) == [py |-> IF t = NoneInt THEN "None" ELSE "datetime", at |-> t]

\* SketchPadItem.model_dump(): Python objects, tags still a set
model_dump(item) ==
    [value |-> item.value,
     timestamp |-> PyDt(item.timestamp),
     summary |-> item.summary,
     expires_at |-> PyDt(item.expires_at),
     access_count |-> item.access_count,
     last_accessed |-> PyDt(item.last_accessed),
     tags |-> [py |-> "set", elems |-> item.tags],
     content_type |-> item.content_type,
     content_hash |-> item.content_hash]

\* json.dump(..., default=str) followed by json.load: what JSON cannot encode
\* (a datetime, a set) is written as str(object) and read back as a string
json_default_str(x) == IF x.py \in {"datetime", "set"} THEN [x EXCEPT !.py = "str"] ELSE x

json_dump_load(items) ==
    [k \in DOMAIN items |->
        [items[k] EXCEPT !.timestamp = json_default_str(@),
                         !.expires_at = json_default_str(@),
                         !.last_accessed = json_default_str(@),
                         !.tags = json_default_str(@)]]

\* pydantic's validation of SketchPadItem(**item_data): item_data is a mapping
\* with the required field value, a datetime field takes a datetime or a
\* string that parses as one, a Set[str] field takes a set or a list and
\* refuses a string
ValidItemData(d) ==
    /\ "value" \in DOMAIN d
    /\ d.timestamp.py \in {"datetime", "str"}
    /\ d.expires_at.py \in {"datetime", "str", "None"}
    /\ d.last_accessed.py \in {"datetime", "str", "None"}
    /\ d.tags.py \in {"set", "list"}

\* SketchPadItem(**item_data) at time t; set_last_accessed fills a None
SketchPadItem(d, t) ==
    [value |-> d.value,
     timestamp |-> d.timestamp.at,
     summary |-> d.summary,
     expires_at |-> d.expires_at.at,
     access_count |-> d.access_count,
     last_accessed |-> IF d.last_accessed.py = "None" THEN t ELSE d.last_accessed.at,
     tags |-> d.tags.elems,
     content_type |-> d.content_type,
     content_hash |-> d.content_hash]

serialize(S, t) ==
    LET ks == {k \in DOMAIN S.redis : ~HasTagMarker(k)}
        S1 == get_items(S, ks, [k \in ks |-> 1], t)
    IN  [store |-> S1,
         data |-> [sketch_pad_id |-> "id",
                   items |-> [k \in ks |-> model_dump(S1.redis[k].item)]]]

\* deserialize: every item that validates is stored (no time to live is set)
\* and indexed; one that does not is skipped
deserialize(S, items, t) ==
    LET good == {k \in DOMAIN items : ValidItemData(items[k])}
    IN  [redis |-> [x \in (DOMAIN S.redis) \cup good |->
                       IF x \in good
                       THEN [item |-> SketchPadItem(items[x], t), expire |-> NoneInt]
                       ELSE S.redis[x]],
         tagIndex |-> [tg \in Tags |->
                       S.tagIndex[tg] \cup {k \in good : tg \in items[k].tags.elems}]]

\* persist: the new content of the file
persist(S, t) ==
    LET r == serialize(S, t)
    IN  [store |-> r.store,
         file |-> [exists |-> TRUE, items |-> json_dump_load(r.data.items)]]

\* What a try block ends with when nothing was raised in it
NoException == "<no exception>"

\* json.load(f): the data, or JSONDecodeError for a file that is not JSON
\* (a file cut short has the field torn)
json_load(f) ==
    [data |-> f, exc |-> IF "torn" \in DOMAIN f THEN "JSONDecodeError" ELSE NoException]

\* The try block of restore: json.load, then deserialize, which reads
\* data["items"].items() outside its per-item try
restore_try(S, f, t) ==
    IF json_load(f).exc # NoException
    THEN [store |-> S, exc |-> "JSONDecodeError"]
    ELSE IF "items" \notin DOMAIN f
    THEN [store |-> S, exc |-> NoException]
    ELSE IF "py" \in DOMAIN f.items
    THEN [store |-> S, exc |-> "AttributeError"]
    ELSE [store |-> deserialize(S, f.items, t), exc |-> NoException]

\* restore without its `except Exception`
restore_unguarded(S, f, t) ==
    IF ~f.exists THEN [store |-> S, exc |-> NoException] ELSE restore_try(S, f, t)

\* restore: a missing file returns at once; whatever the try block raises is
\* printed as a warning
restore(S, f, t) ==
    IF ~f.exists
    THEN [store |-> S, exc |-> NoException]
    ELSE [store |-> restore_try(S, f, t).store, exc |-> NoException]

\* __init__ on an empty fast tier: _restore_from_storage
restore_from_storage(f, t) == restore(EmptyStore, f, t).store

\* -------------------------------------------------- ConversationContext
\* A str is a sequence of tokens; None where a str is optional is NoneSeq
NoneSeq == <<NoneStr>>
StrTruthy(s) == s # NoneSeq /\ s # <<>>

\* What the summarizer (summarize_history) may return
SummaryTexts == {<<>>, <<"sum">>}
\* The summarizer raising (an LLM error, the timeout)
SummarizerError == <<"<raise>">>

\* Messages of an external list: dicts of role and content
ExternalMsgs == {[role |-> "user", content |-> <<"q">>],
                 [role |-> "assistant", content |-> <<"r">>]}

\* The dict add_message / sync_with_external_history appends
HistoryMsg(role, content, t, metadata) ==
    [role |-> role, content |-> content, timestamp |-> t, metadata |-> metadata]

\* The synthetic message that carries a summary
SummaryMsg(summary, t) ==
    HistoryMsg("assistant", <<"During">> \o summary \o <<"Now">>, t, "summary")

\* _auto_memory_manage with the list reseeded by the summary and the last message
auto_memory_manage_keep_last(C, summary, t) ==
    [C EXCEPT !.conversation_summary =
                  IF StrTruthy(@) THEN @ \o <<"\n\n">> \o summary ELSE summary,
              !.history = <<SummaryMsg(summary, t), C.history[Len(C.history)]>>]

\* _auto_memory_manage with the summary replaced
auto_memory_manage_replace(C, summary, t) ==
    [C EXCEPT !.conversation_summary = summary,
              !.history = IF Len(C.history) > 0 THEN <<SummaryMsg(summary, t)>> ELSE <<>>]

\* _auto_memory_manage with the list reseeded by the whole summary held
auto_memory_manage_whole(C, summary, t) ==
    LET whole == IF StrTruthy(C.conversation_summary)
                 THEN C.conversation_summary \o <<"\n\n">> \o summary ELSE summary
    IN  [C EXCEPT !.conversation_summary = whole,
                  !.history = IF Len(C.history) > 0 THEN <<SummaryMsg(whole, t)>> ELSE <<>>]

\* Whether _auto_memory_manage compacts
NeedsCompaction(C) == Len(C.history) > C.max_history_length /\ C.llm_interface

\* _auto_memory_manage once the summarizer has returned summary
auto_memory_manage(C, summary, t) ==
    [C EXCEPT !.conversation_summary =
                  IF StrTruthy(@) THEN @ \o <<"\n\n">> \o summary ELSE summary,
              !.history = IF Len(C.history) > 0 THEN <<SummaryMsg(summary, t)>> ELSE <<>>]

\* _save_context: the file after the save (the history and the summary held
\* are appended to what the file holds)
save_context(C, F) ==
    LET existing_history == IF F.exists THEN F.history ELSE <<>>
        existing_summary == IF F.exists THEN F.conversation_summary ELSE <<>>
        held == C.conversation_summary
    IN  [exists |-> TRUE,
         history |-> existing_history \o C.history,
         conversation_summary |->
             IF StrTruthy(existing_summary) /\ StrTruthy(held)
             THEN existing_summary \o <<"\n\n">> \o held
             ELSE IF StrTruthy(existing_summary) THEN existing_summary
             ELSE IF StrTruthy(held) THEN held
             ELSE <<>>]

\* The tail of a call after the history grew: _auto_memory_manage, then the
\* save. summary is what the summarizer does if it is called.
manage_and_save(C, F, summary, t) ==
    IF NeedsCompaction(C) /\ summary = SummarizerError
    THEN [ctx |-> C, file |-> F, outcome |-> "raised", compacted |-> FALSE]
    ELSE LET C1 == IF NeedsCompaction(C) THEN auto_memory_manage(C, summary, t) ELSE C
         IN  [ctx |-> C1,
              file |-> IF C.save_to_file THEN save_context(C1, F) ELSE F,
              outcome |-> "returned",
              compacted |-> NeedsCompaction(C)]

add_message(C, F, role, content, metadata, summary, t) ==
    manage_and_save([C EXCEPT !.history = Append(@, HistoryMsg(role, content, t, metadata))],
                    F, summary, t)

\* The messages sync_with_external_history appends: external_history[current_count:]
SyncTail(C, external_history) ==
    IF Len(external_history) > Len(C.history)
    THEN SubSeq(external_history, Len(C.history) + 1, Len(external_history))
    ELSE <<>>

RECURSIVE Stamp(_, _)
Stamp(msgs, t) ==
    IF msgs = <<>> THEN <<>>
    ELSE <<HistoryMsg(Head(msgs).role, Head(msgs).content, t, NoneStr)>> \o Stamp(Tail(msgs), t)

sync_with_external_history(C, F, external_history, summary, t) ==
    manage_and_save([C EXCEPT !.history = @ \o Stamp(SyncTail(C, external_history), t)],
                    F, summary, t)

\* The loop of search_history over reversed(self.history), at index i:
\* msg["content"].lower() raises AttributeError when the content is None; a
\* content is the sequence of its words, a query is one word
RECURSIVE history_scan(_, _, _, _, _)
history_scan(H, i, query, limit, results) ==
    IF i = 0 THEN [result |-> results, exc |-> NoException]
    ELSE IF H[i].content = NoneSeq THEN [result |-> <<>>, exc |-> "AttributeError"]
    ELSE LET hit == Lower(query) \in {Lower(H[i].content[n]) : n \in 1..Len(H[i].content)}
             res == IF hit THEN <<H[i]>> \o results ELSE results
         IN  IF hit /\ Len(res) >= limit THEN [result |-> res, exc |-> NoException]
             ELSE history_scan(H, i - 1, query, limit, res)

\* search_history(query, limit): list(reversed(results))
search_history(C, query, limit) == history_scan(C.history, Len(C.history), query, limit, <<>>)

\* --------------------------------------------------------------- actions
\* Reads stay within MaxAccess
CanRead(S, key, n) ==
    key \in DOMAIN S.redis => S.redis[key].item.access_count + n <= MaxAccess

Tick ==
    /\ now < MaxTime
    /\ now' = now + 1
    /\ pad' = RedisPurge(pad, now + 1)
    /\ ret' = [op |-> "tick"]
    /\ UNCHANGED <<shared, file, written, persisted, ctxvars, msgvars, thrvars, mgrvars>>

SetItemCall(key, value, ttl, summary, tags) ==
    LET r == set_item(pad, key, value, ttl, summary, tags, now)
    IN  /\ pad' = r.store
        /\ ret' = [op |-> "set_item", key |-> key, value |-> value,
                   returned |-> r.key,
                   existed |-> key \in DOMAIN pad.redis,
                   prevValue |-> IF key \in DOMAIN pad.redis
                                 THEN pad.redis[key].item.value ELSE NoneStr]
        /\ written' = Put(written, key, [ts |-> now, ttl |-> ttl])
        /\ UNCHANGED <<shared, now, file, persisted, ctxvars, msgvars, thrvars, mgrvars>>

GetItemCall(key) ==
    LET r == get_item(pad, key, now)
    IN  /\ CanRead(pad, key, 1)
        /\ pad' = r.store
        /\ ret' = [op |-> "get_item", key |-> key, item |-> r.item]
        /\ UNCHANGED <<shared, now, file, written, persisted, ctxvars, msgvars, thrvars, mgrvars>>

DeleteCall(key) ==
    LET r == delete(pad, key, now)
    IN  /\ pad' = r.store
        /\ ret' = [op |-> "delete", key |-> key, result |-> r.result]
        /\ written' = Drop(written, {key})
        /\ UNCHANGED <<shared, now, file, persisted, ctxvars, msgvars, thrvars, mgrvars>>

ClearCall ==
    /\ pad' = clear(pad)
    /\ ret' = [op |-> "clear"]
    /\ written' = EmptyMap
    /\ UNCHANGED <<shared, now, file, persisted, ctxvars, msgvars, thrvars, mgrvars>>

SearchByTagsCall(tags, match_all) ==
    \E first \in (IF tags = {} THEN {NoneStr} ELSE tags) :
        LET r == search_by_tags(pad, tags, match_all, first, now)
        IN  /\ \A k \in DOMAIN pad.redis :
                  CanRead(pad, k, IF match_all
                                  THEN (IF tags # {} /\ k \in pad.tagIndex[first] THEN 1 ELSE 0)
                                  ELSE Cardinality({tg \in tags : k \in pad.tagIndex[tg]}))
            /\ pad' = r.store
            /\ ret' = [op |-> "search_by_tags", tags |-> tags,
                       match_all |-> match_all, result |-> r.result]
            /\ UNCHANGED <<shared, now, file, written, persisted, ctxvars, msgvars, thrvars, mgrvars>>

\* The orders in which redis.keys may list the data keys of the pad
KeyOrders(S) ==
    {o \in UNION {[1..n -> DOMAIN S.redis] : n \in {Cardinality(DOMAIN S.redis)}} :
        \A i, j \in DOMAIN o : i # j => o[i] # o[j]}

SearchByContentCall(query, limit) ==
    \E all_keys \in KeyOrders(pad) :
        LET r == search_by_content(pad, query, limit, all_keys, now)
        IN  /\ \A k \in DOMAIN pad.redis : CanRead(pad, k, 1)
            /\ pad' = r.store
            /\ ret' = [op |-> "search_by_content", query |-> query, limit |-> limit,
                       result |-> r.result]
            /\ UNCHANGED <<shared, now, file, written, persisted, ctxvars, msgvars, thrvars, mgrvars>>

PersistCall ==
    LET r == persist(pad, now)
    IN  /\ \A k \in DOMAIN pad.redis : HasTagMarker(k) \/ CanRead(pad, k, 1)
        /\ pad' = r.store
        /\ file' = r.file
        /\ persisted' = [k \in DOMAIN pad.redis |-> pad.redis[k].item]
        /\ ret' = [op |-> "persist"]
        /\ UNCHANGED <<shared, now, written, ctxvars, msgvars, thrvars, mgrvars>>

RestoreCall ==
    LET r == restore(pad, file, now)
    IN  /\ pad' = r.store
        /\ ret' = [op |-> "restore", after |-> ret.op,
                    outcome |-> IF r.exc = NoException THEN "returned" ELSE "raised"]
        /\ written' = Drop(written, {k \in DOMAIN r.store.redis :
                                         k \notin DOMAIN pad.redis \/ r.store.redis[k] # pad.redis[k]})
    /\ UNCHANGED <<shared, now, file, persisted, ctxvars, msgvars, thrvars, mgrvars>>

\* A new store instance for the same file, on an empty fast tier
NewInstance ==
    /\ pad' = restore_from_storage(file, now)
    /\ ret' = [op |-> "new_instance"]
    /\ written' = EmptyMap
    /\ UNCHANGED <<shared, now, file, persisted, ctxvars, msgvars, thrvars, mgrvars>>

\* SketchManager.delete_sketch_pad (called by delete_conversation): the
\* instance leaves the active map and the snapshot file is removed; no Redis
\* command is issued
DeleteSketchPadCall ==
    /\ file' = [exists |-> FALSE]
    /\ persisted' = EmptyMap
    /\ ret' = [op |-> "delete_sketch_pad"]
    /\ UNCHANGED <<shared, now, pad, written, ctxvars, msgvars, thrvars, mgrvars>>

\* SketchManager.create_sketch_pad for an id that is not active: a backend
\* is built with the same sketch_pad_id on the same Redis database, and its
\* __init__ runs _restore_from_storage
CreateSketchPadCall ==
    LET r == restore(pad, file, now)
    IN  /\ pad' = r.store
        /\ ret' = [op |-> "create_sketch_pad", after |-> ret.op]
        /\ written' = Drop(written, {k \in DOMAIN r.store.redis :
                                         k \notin DOMAIN pad.redis \/ r.store.redis[k] # pad.redis[k]})
        /\ UNCHANGED <<shared, now, file, persisted, ctxvars, msgvars, thrvars, mgrvars>>

\* deserialize(serialize()) into an empty store; copy is that store
RoundTripCall ==
    LET r == serialize(pad, now)
    IN  /\ \A k \in DOMAIN pad.redis : HasTagMarker(k) \/ CanRead(pad, k, 1)
        /\ pad' = r.store
        /\ ret' = [op |-> "roundtrip", copy |-> deserialize(EmptyStore, r.data.items, now)]
        /\ UNCHANGED <<shared, now, file, written, persisted, ctxvars, msgvars, thrvars, mgrvars>>

\* -------------------------------------------- the fast tier out of reach
\* redis-py raises ConnectionError from any command while the server cannot
\* be reached; up tells whether it can
ConnectionError == "ConnectionError"

\* get_item: _redis_get is called before the try
get_item_redis(S, key, up, t) ==
    IF ~up THEN [store |-> S, result |-> NoItem, exc |-> ConnectionError]
    ELSE LET r == get_item(S, key, t)
         IN  [store |-> r.store, result |-> r.item, exc |-> NoException]

\* exists: _redis_exists, no try
exists_redis(S, key, up) ==
    IF ~up THEN [store |-> S, result |-> FALSE, exc |-> ConnectionError]
    ELSE [store |-> S, result |-> exists(S, key), exc |-> NoException]

\* keys: _redis_keys, no try
keys_redis(S, up) ==
    IF ~up THEN [store |-> S, result |-> {}, exc |-> ConnectionError]
    ELSE [store |-> S, result |-> keys(S), exc |-> NoException]

\* A read of the pad while the fast tier is or is not reachable
ReadCall(name, key, up) ==
    LET r == CASE name = "get_item" -> get_item_redis(pad, key, up, now)
               [] name = "exists" -> exists_redis(pad, key, up)
               [] name = "keys" -> keys_redis(pad, up)
    IN  /\ up /\ name = "get_item" => CanRead(pad, key, 1)
        /\ pad' = r.store
        /\ ret' = [op |-> "read", name |-> name, key |-> key, up |-> up,
                   result |-> r.result, exc |-> r.exc]
        /\ UNCHANGED <<shared, now, file, written, persisted, ctxvars, msgvars, thrvars, mgrvars>>

\* ------------------------------------------- two sessions, one database
\* A string is the sequence of its pieces between ":"; joining with ":" is
\* concatenation of the sequences.  The ids "a" and "a:b", and the keys "c"
\* and "b:c", are strings a caller can supply (get_or_create_conversation
\* hands conversation_id on as it came).
SessionIds == {<<"a">>, <<"a", "b">>}
SessionKeys == {<<"c">>, <<"b", "c">>}

NoKeys == [x \in {} |-> NoItem]

\* f"sketch_pad:{self.sketch_pad_id}:{key}"
get_redis_key(sketch_pad_id, key) == <<"sketch_pad">> \o sketch_pad_id \o key

\* redis.keys(_get_redis_key("*")): the names that begin "sketch_pad:<id>:"
redis_keys(R, sketch_pad_id) ==
    LET prefix == <<"sketch_pad">> \o sketch_pad_id
    IN  {rk \in DOMAIN R : /\ Len(rk) > Len(prefix)
                           /\ SubSeq(rk, 1, Len(prefix)) = prefix}

\* redis_key.split(":", 2)[-1]
original_key(rk) == SubSeq(rk, 3, Len(rk))

\* The sessions whose items an operation read, returned or changed
Owners(R, rks) == {R[rk].owner : rk \in rks \cap DOMAIN R}

\* set_item of the pad of session id (an item with no tags and no ttl, the
\* pad below max_items); owner records whose set_item wrote the item
SharedSetItem(id, key, value) ==
    LET rk == get_redis_key(id, key)
    IN  /\ shared' = [x \in DOMAIN shared \cup {rk} |->
                         IF x = rk THEN [value |-> value, access_count |-> 0, owner |-> id]
                         ELSE shared[x]]
        /\ ret' = [op |-> "shared", name |-> "set_item", id |-> id,
                   touched |-> Owners(shared, {rk}), result |-> {}]
        /\ UNCHANGED <<now, pad, file, written, persisted, ctxvars, msgvars, thrvars, mgrvars>>

\* get_item of the pad of session id
SharedGetItem(id, key) ==
    LET rk == get_redis_key(id, key)
    IN  /\ rk \in DOMAIN shared => shared[rk].access_count < MaxAccess
        /\ shared' = IF rk \in DOMAIN shared
                     THEN [shared EXCEPT ![rk].access_count = @ + 1] ELSE shared
        /\ ret' = [op |-> "shared", name |-> "get_item", id |-> id,
                   touched |-> Owners(shared, {rk}),
                   result |-> IF rk \in DOMAIN shared THEN {shared[rk].value} ELSE {}]
        /\ UNCHANGED <<now, pad, file, written, persisted, ctxvars, msgvars, thrvars, mgrvars>>

\* keys() of the pad of session id
SharedKeys(id) ==
    /\ ret' = [op |-> "shared", name |-> "keys", id |-> id,
               touched |-> Owners(shared, redis_keys(shared, id)),
               result |-> {original_key(rk) : rk \in redis_keys(shared, id)}]
    /\ UNCHANGED <<now, pad, file, written, persisted, shared, ctxvars, msgvars, thrvars, mgrvars>>

\* delete of the pad of session id: get_item, then the key is removed
SharedDelete(id, key) ==
    LET rk == get_redis_key(id, key)
    IN  /\ shared' = [x \in DOMAIN shared \ {rk} |-> shared[x]]
        /\ ret' = [op |-> "shared", name |-> "delete", id |-> id,
                   touched |-> Owners(shared, {rk}), result |-> {}]
        /\ UNCHANGED <<now, pad, file, written, persisted, ctxvars, msgvars, thrvars, mgrvars>>

\* clear() of the pad of session id
SharedClear(id) ==
    /\ shared' = [x \in DOMAIN shared \ redis_keys(shared, id) |-> shared[x]]
    /\ ret' = [op |-> "shared", name |-> "clear", id |-> id,
               touched |-> Owners(shared, redis_keys(shared, id)), result |-> {}]
    /\ UNCHANGED <<now, pad, file, written, persisted, ctxvars, msgvars, thrvars, mgrvars>>

PadInit ==
    /\ now = 0
    /\ pad = EmptyStore
    /\ file = [exists |-> FALSE]
    /\ ret = [op |-> "init"]
    /\ written = EmptyMap
    /\ persisted = EmptyMap
    /\ shared = NoKeys

\* ---------------------------------------------------------------- Message
ValidationError == [error |-> "ValidationError"]

\* Optional[List[ToolCall]] / Optional[str] truthiness: not None, not empty
SeqTruthy(x) == x # NoneSeq /\ x # <<>>
IdTruthy(x) == x # NoneStr /\ x # ""

\* The validator without its rule for the tool role
validate_assistant_only(role, content, tool_calls, tool_call_id) ==
    ~(role = "assistant" /\ SeqTruthy(tool_calls) /\ content # NoneStr)

\* validate_tool_message_consistency: TRUE when it returns, FALSE when it raises
validate_tool_message_consistency(role, content, tool_calls, tool_call_id) ==
    /\ ~(role = "assistant" /\ SeqTruthy(tool_calls) /\ content # NoneStr)
    /\ ~(role = "tool" /\ ~IdTruthy(tool_call_id))

\* Message(role=..., content=..., tool_calls=..., tool_call_id=...)
Message(role, content, tool_calls, tool_call_id) ==
    IF validate_tool_message_consistency(role, content, tool_calls, tool_call_id)
    THEN [role |-> role, content |-> content, tool_calls |-> tool_calls,
          tool_call_id |-> tool_call_id]
    ELSE ValidationError

\* store_message of the History: the message is appended
store_message(H, message) == Append(H, message)

Roles == {"system", "user", "assistant", "tool"}
Contents == {NoneStr, "text"}
ToolCallLists == {NoneSeq, <<>>, <<"call_1">>}
ToolCallIds == {NoneStr, "", "call_1"}

\* context.store_message(Message(...)): the argument is built first, and a
\* ValidationError leaves the call unmade
StoreMessageCall(role, content, tool_calls, tool_call_id) ==
    LET m == Message(role, content, tool_calls, tool_call_id)
    IN  /\ m # ValidationError => Len(stored) < MaxStored
        /\ stored' = IF m = ValidationError THEN stored ELSE store_message(stored, m)
        /\ mret' = [op |-> "Message", role |-> role, content |-> content,
                    tool_calls |-> tool_calls, tool_call_id |-> tool_call_id,
                    outcome |-> IF m = ValidationError THEN "ValidationError" ELSE "stored"]
        /\ UNCHANGED <<agent, padvars, ctxvars, thrvars, mgrvars>>

\* The bounds of the model on what a ConversationContext call leaves
CtxWithin(r) ==
    /\ Len(r.ctx.history) <= MaxHistory
    /\ r.compacted => Len(r.ctx.conversation_summary) <= MaxSummary
    /\ r.file.exists => Len(r.file.history) <= MaxSaved

\* What the summarizer does if this call reaches it
SummarizerOutcomes == SummaryTexts \cup {SummarizerError}

AddMessageCall(role, content) ==
    \E summary \in SummarizerOutcomes :
        LET r == add_message(ctx, ctxFile, role, content, NoneStr, summary, now)
        IN  /\ CtxWithin(r)
            /\ r.compacted \/ r.outcome = "raised" \/ summary = <<>>
            /\ ctx' = r.ctx
            /\ ctxFile' = r.file
            /\ cret' = [op |-> "add_message", outcome |-> r.outcome,
                        compacted |-> r.compacted, summary |-> summary,
                        external |-> <<>>, appended |-> <<>>]
            /\ UNCHANGED <<padvars, msgvars, thrvars, mgrvars>>

SyncCall(external_history) ==
    \E summary \in SummarizerOutcomes :
        LET r == sync_with_external_history(ctx, ctxFile, external_history, summary, now)
        IN  /\ CtxWithin(r)
            /\ r.compacted \/ r.outcome = "raised" \/ summary = <<>>
            /\ ctx' = r.ctx
            /\ ctxFile' = r.file
            /\ cret' = [op |-> "sync", outcome |-> r.outcome,
                        compacted |-> r.compacted, summary |-> summary,
                        external |-> external_history,
                        appended |-> SyncTail(ctx, external_history)]
            /\ UNCHANGED <<padvars, msgvars, thrvars, mgrvars>>

SearchHistoryCall(query, limit) ==
    LET r == search_history(ctx, query, limit)
    IN  /\ cret' = [op |-> "search_history", query |-> query, limit |-> limit,
                    outcome |-> IF r.exc = NoException THEN "returned" ELSE "raised",
                    result |-> r.result, compacted |-> FALSE, summary |-> <<>>,
                    external |-> <<>>, appended |-> <<>>]
        /\ UNCHANGED <<ctx, ctxFile, padvars, msgvars, thrvars, mgrvars>>

\* ConversationContext(llm_interface, max_history_length, save_to_file)
CtxNew(llm_interface, max_history_length, save_to_file) ==
    [llm_interface |-> llm_interface,
     max_history_length |-> max_history_length,
     save_to_file |-> save_to_file,
     history |-> <<>>,
     conversation_summary |-> NoneSeq]

CtxInit ==
    /\ ctx = CtxNew(FALSE, 5, TRUE)
    /\ ctxFile = [exists |-> FALSE]
    /\ cret = [op |-> "init", outcome |-> "returned", compacted |-> FALSE,
               summary |-> <<>>, external |-> <<>>, appended |-> <<>>]

\* ------------------------------------------------------- the agent's turn
\* The messages the LLM layer appends to its list during a turn: a tool
\* call, its result, a result that names no call, a plain assistant message
ToolCallMsg == [role |-> "assistant", content |-> NoneStr,
                tool_calls |-> <<"call_1">>, tool_call_id |-> NoneStr]
ToolResultMsg == [role |-> "tool", content |-> "text",
                  tool_calls |-> NoneSeq, tool_call_id |-> "call_1"]
OrphanResultMsg == [role |-> "tool", content |-> "text",
                    tool_calls |-> NoneSeq, tool_call_id |-> NoneStr]
PlainMsg == [role |-> "assistant", content |-> "text",
             tool_calls |-> NoneSeq, tool_call_id |-> NoneStr]

\* What the list gains between two packages of the stream
Batches == {<<>>, <<ToolCallMsg>>, <<ToolResultMsg>>, <<OrphanResultMsg>>, <<PlainMsg>>,
            <<ToolCallMsg, ToolResultMsg>>, <<ToolCallMsg, OrphanResultMsg>>}

\* The text of one chunk (_extract_text_from_chunk)
Deltas == {"", "t"}

\* `(role == "assistant" and tool_calls) or role == "tool"`
ToolRelated(nm) == (nm.role = "assistant" /\ SeqTruthy(nm.tool_calls)) \/ nm.role = "tool"

\* The Message the loop builds for nm: a tool call with content None, a tool
\* result with its content and tool_call_id
MessageOf(nm) ==
    IF nm.role = "assistant" /\ SeqTruthy(nm.tool_calls)
    THEN Message("assistant", NoneStr, nm.tool_calls, NoneStr)
    ELSE Message("tool", nm.content, NoneSeq, nm.tool_call_id)

\* Message(role="assistant", content=assistant_buffer)
TextMessage(buffer) == Message("assistant", buffer, NoneSeq, NoneStr)

\* The for loop over new_msgs inside the try: H is the History, buffer the
\* assistant_buffer; the first Message(...) that raises ends the loop
RECURSIVE store_new_msgs(_, _, _)
store_new_msgs(H, buffer, new_msgs) ==
    IF new_msgs = <<>> THEN [stored |-> H, buffer |-> buffer, exc |-> NoException]
    ELSE LET nm == Head(new_msgs)
             flush == ToolRelated(nm) /\ buffer # ""
             H1 == IF flush THEN store_message(H, TextMessage(buffer)) ELSE H
             b1 == IF flush THEN "" ELSE buffer
         IN  IF ~ToolRelated(nm) THEN store_new_msgs(H1, b1, Tail(new_msgs))
             ELSE IF MessageOf(nm) = ValidationError
             THEN [stored |-> H1, buffer |-> b1, exc |-> "ValidationError"]
             ELSE store_new_msgs(store_message(H1, MessageOf(nm)), b1, Tail(new_msgs))

\* One turn of the for loop of _stream_and_persist, on the package
\* (raw_response, current_messages): baseline_len moves only when the whole
\* batch went through
stream_package(A, H, delta, current_messages) ==
    LET baseline == IF A.baseline_len = NoneInt THEN Len(current_messages) ELSE A.baseline_len
        new_msgs == SubSeq(current_messages, baseline + 1, Len(current_messages))
        r == store_new_msgs(H, A.assistant_buffer \o delta, new_msgs)
    IN  [stored |-> r.stored,
         agent |-> [A EXCEPT !.assistant_buffer = r.buffer,
                             !.baseline_len = IF r.exc = NoException
                                              THEN Len(current_messages) ELSE baseline]]

\* What the turn is to leave in the History, by the order of the stream:
\* want after a package that brought delta and the batch new
RECURSIVE Wanted(_, _, _)
Wanted(want, text, new) ==
    IF new = <<>> THEN [want |-> want, text |-> text]
    ELSE LET nm == Head(new)
             storable == ToolRelated(nm) /\ MessageOf(nm) # ValidationError
             flush == ToolRelated(nm) /\ text # ""
             w1 == IF flush THEN Append(want, TextMessage(text)) ELSE want
             t1 == IF flush THEN "" ELSE text
         IN  IF storable THEN Wanted(Append(w1, MessageOf(nm)), t1, Tail(new))
             ELSE Wanted(w1, t1, Tail(new))

\* The next package of the stream: the chunk carries delta, and the list has
\* gained the batch new since the package before
StreamPackage(delta, new) ==
    /\ agent.pc = "streaming"
    /\ agent.packages < MaxPackages
    /\ agent.baseline_len = NoneInt => new = <<>>
    /\ LET current_messages == agent.current_messages \o new
           r == stream_package(agent, stored, delta, current_messages)
           w == Wanted(agent.want, agent.text \o delta, new)
       IN  /\ stored' = r.stored
           /\ agent' = [r.agent EXCEPT !.current_messages = current_messages,
                                       !.packages = @ + 1,
                                       !.want = w.want,
                                       !.text = w.text]
    /\ mret' = [op |-> "package"]
    /\ UNCHANGED <<padvars, ctxvars, thrvars, mgrvars>>

\* The stream ends: the text left in assistant_buffer is stored
StreamEnd ==
    /\ agent.pc = "streaming"
    /\ stored' = IF agent.assistant_buffer # ""
                 THEN store_message(stored, TextMessage(agent.assistant_buffer)) ELSE stored
    /\ agent' = [agent EXCEPT !.pc = "done", !.assistant_buffer = "",
                              !.want = IF agent.text # ""
                                       THEN Append(@, TextMessage(agent.text)) ELSE @,
                              !.text = ""]
    /\ mret' = [op |-> "stream_end"]
    /\ UNCHANGED <<padvars, ctxvars, thrvars, mgrvars>>

\* _stream_and_persist before the first package; the list holds the prompt
AgentInit ==
    agent = [pc |-> "streaming", assistant_buffer |-> "", baseline_len |-> NoneInt,
             current_messages |-> <<[role |-> "user", content |-> "text",
                                     tool_calls |-> NoneSeq, tool_call_id |-> NoneStr]>>,
             packages |-> 0, want |-> <<>>, text |-> ""]

MsgInit ==
    /\ stored = <<>>
    /\ mret = [op |-> "init"]
    /\ AgentInit

\* ------------------------------------------- sketch pad calls, by threads
\* The threads that share one store instance
Threads == {"w1", "w2"}

\* `with self._lock` (an RLock): free, or held by the thread itself
CanAcquire(w) == lock \in {NoneStr, w}

Idle == [pc |-> "idle"]

\* set_item, entered: the lock is taken and the item is written (redis.set)
SetItemEnter(w, key, value, summary, tags) ==
    /\ thr[w] = Idle
    /\ CanAcquire(w)
    /\ lock' = w
    /\ pad' = RedisSet(pad, key, NewItem(value, NoneInt, summary, tags, now))
    /\ thr' = [thr EXCEPT ![w] = [pc |-> "set_item", key |-> key, tags |-> tags]]
    /\ ret' = [op |-> "set_item_enter", thread |-> w]
    /\ written' = Put(written, key, [ts |-> now, ttl |-> NoneInt])
    /\ UNCHANGED <<shared, now, file, persisted, ctxvars, msgvars, mgrvars>>

\* set_item, the rest: the tags are indexed, the lock is released
SetItemLeave(w) ==
    /\ thr[w].pc = "set_item"
    /\ pad' = IF thr[w].tags # {} THEN RedisSaddAll(pad, thr[w].tags, thr[w].key) ELSE pad
    /\ lock' = NoneStr
    /\ thr' = [thr EXCEPT ![w] = Idle]
    /\ ret' = [op |-> "set_item", thread |-> w]
    /\ UNCHANGED <<shared, now, file, written, persisted, ctxvars, msgvars, mgrvars>>

\* delete, the whole of it under the lock
DeleteBy(w, key) ==
    LET r == delete(pad, key, now)
    IN  /\ thr[w] = Idle
        /\ CanAcquire(w)
        /\ CanRead(pad, key, 1)
        /\ pad' = r.store
        /\ ret' = [op |-> "delete", thread |-> w]
        /\ written' = Drop(written, {key})
        /\ UNCHANGED <<shared, now, file, persisted, ctxvars, msgvars, thrvars, mgrvars>>

\* The file persist is writing, complete
SnapshotFile(items) == [exists |-> TRUE, items |-> json_dump_load(items)]

\* A file opened for writing and not yet written in full: no JSON document
TornFile == [exists |-> TRUE, torn |-> TRUE]

\* persist, first part: serialize(), which takes the lock and releases it
PersistSerialize(w) ==
    LET r == serialize(pad, now)
    IN  /\ thr[w] = Idle
        /\ CanAcquire(w)
        /\ \A k \in DOMAIN pad.redis : HasTagMarker(k) \/ CanRead(pad, k, 1)
        /\ pad' = r.store
        /\ thr' = [thr EXCEPT ![w] = [pc |-> "serialized", data |-> r.data.items]]
        /\ ret' = [op |-> "persist_serialize", thread |-> w]
        /\ UNCHANGED <<shared, now, file, written, persisted, lock, ctxvars, msgvars, mgrvars>>

\* persist: open(self.file_path, "w") empties the file
PersistOpen(w) ==
    /\ thr[w].pc = "serialized"
    /\ file' = TornFile
    /\ thr' = [thr EXCEPT ![w] = [pc |-> "opened", data |-> thr[w].data, old |-> file]]
    /\ ret' = [op |-> "persist_open", thread |-> w]
    /\ UNCHANGED <<shared, now, pad, written, persisted, lock, ctxvars, msgvars, mgrvars>>

\* persist: json.dump has written everything and the file is closed. With
\* another thread writing the same file what is left is this snapshot or a
\* mix of the two.
PersistWrite(w) ==
    /\ thr[w].pc = "opened"
    /\ \/ file' = SnapshotFile(thr[w].data)
       \/ /\ \E v \in Threads \ {w} : thr[v].pc = "opened"
          /\ file' = TornFile
    /\ thr' = [thr EXCEPT ![w] = Idle]
    /\ ret' = [op |-> "persist", thread |-> w, outcome |-> "written"]
    /\ persisted' = thr[w].data
    /\ UNCHANGED <<shared, now, pad, written, lock, ctxvars, msgvars, mgrvars>>

\* persist: the write fails part way (OSError); the except clause prints a
\* warning and persist returns
PersistWriteError(w) ==
    /\ thr[w].pc = "opened"
    /\ thr' = [thr EXCEPT ![w] = Idle]
    /\ ret' = [op |-> "persist", thread |-> w, outcome |-> "write_error",
               old |-> thr[w].old, new |-> SnapshotFile(thr[w].data)]
    /\ UNCHANGED <<shared, now, pad, file, written, persisted, lock, ctxvars, msgvars, mgrvars>>

\* The process dies: every thread stops where it is
Crash ==
    /\ \E w \in Threads : thr[w].pc \notin {"idle", "crashed"}
    /\ thr' = [w \in Threads |-> [pc |-> "crashed", at |-> thr[w]]]
    /\ ret' = [op |-> "crash"]
    /\ UNCHANGED <<shared, now, pad, file, written, persisted, lock, ctxvars, msgvars, mgrvars>>

ThrInit ==
    /\ lock = NoneStr
    /\ thr = [w \in Threads |-> Idle]

\* ------------------------------------------ conversations and managers
\* Conversation ids, and the units of work (tasks) that call the managers
Ids == {"A", "B"}
Tasks == {"k1", "k2"}

\* No object: Python None where an object reference is optional
NoObject == 0

\* Conversation.update_access_time, on the object c of the heap
update_access_time(heap, c, t) == [heap EXCEPT ![c].last_accessed = t]

\* Conversation.__enter__ without its check of _current_conversation
Conversation_enter_unchecked(cur, heap, c, t) ==
    [current |-> c, heap |-> update_access_time(heap, c, t), exc |-> NoException]

\* Conversation.__enter__ of the object c, _current_conversation being cur
Conversation_enter(cur, heap, c, t) ==
    IF cur # NoObject
    THEN [current |-> cur, heap |-> heap, exc |-> "RuntimeError"]
    ELSE [current |-> c, heap |-> update_access_time(heap, c, t), exc |-> NoException]

\* Conversation.__exit__: the new _current_conversation
Conversation_exit(cur) == NoObject

\* get_current_conversation(): the global, whoever asks
get_current_conversation(cur, k) == cur

\* get_current_context() / get_current_sketch_pad(): the stores of that object
get_current_context(cur, heap, k) ==
    LET c == get_current_conversation(cur, k)
    IN  IF c # NoObject THEN heap[c].context ELSE NoObject

get_current_sketch_pad(cur, heap, k) ==
    LET c == get_current_conversation(cur, k)
    IN  IF c # NoObject THEN heap[c].sketch_pad ELSE NoObject

\* How a backend constructor, a History persist and a sketch pad persist end
Made == {"ok", "raise"}
ContextPersists == {"saved", "failed", "raised"}
SketchPersists == {"written", "torn", "not_written"}

\* ContextManager.create_context; made says whether the backend's constructor
\* returns ("ok") or raises ("raise")
create_context(M, id, made) ==
    IF id \in DOMAIN M.contexts
    THEN [mgr |-> M, context |-> M.contexts[id], exc |-> NoException]
    ELSE IF made = "raise"
    THEN [mgr |-> M, context |-> NoObject, exc |-> "Exception"]
    ELSE [mgr |-> [M EXCEPT !.nctx = @ + 1, !.contexts = Put(@, id, M.nctx + 1)],
          context |-> M.nctx + 1, exc |-> NoException]

\* create_sketch_pad that hands out a pad it already holds, whatever its id
create_sketch_pad_any(M, id) ==
    IF DOMAIN M.sketches # {}
    THEN [mgr |-> M, sketch_pad |-> M.sketches[CHOOSE x \in DOMAIN M.sketches : TRUE]]
    ELSE [mgr |-> [M EXCEPT !.nskt = @ + 1, !.sketches = Put(@, id, M.nskt + 1)],
          sketch_pad |-> M.nskt + 1]

\* SketchManager.create_sketch_pad
create_sketch_pad(M, id) ==
    IF id \in DOMAIN M.sketches
    THEN [mgr |-> M, sketch_pad |-> M.sketches[id]]
    ELSE [mgr |-> [M EXCEPT !.nskt = @ + 1, !.sketches = Put(@, id, M.nskt + 1)],
          sketch_pad |-> M.nskt + 1]

\* ContextManager.get_context: the active one, else one built on the file
get_context(M, id, made) ==
    IF id \in DOMAIN M.contexts
    THEN [mgr |-> M, context |-> M.contexts[id]]
    ELSE IF M.ctxFile[id] # "none" /\ made = "ok"
    THEN [mgr |-> [M EXCEPT !.nctx = @ + 1, !.contexts = Put(@, id, M.nctx + 1)],
          context |-> M.nctx + 1]
    ELSE [mgr |-> M, context |-> NoObject]

\* SketchManager.get_sketch_pad: the active one, else one built on the file
get_sketch_pad(M, id) ==
    IF id \in DOMAIN M.sketches
    THEN [mgr |-> M, sketch_pad |-> M.sketches[id]]
    ELSE IF M.sktFile[id] # "none"
    THEN [mgr |-> [M EXCEPT !.nskt = @ + 1, !.sketches = Put(@, id, M.nskt + 1)],
          sketch_pad |-> M.nskt + 1]
    ELSE [mgr |-> M, sketch_pad |-> NoObject]

\* context.persist() of the History backend: cp is how it ends, "saved"
\* (the file is written, True), "failed" (False) or "raised"
context_persist(M, id, cp) ==
    IF cp = "saved" THEN [M EXCEPT !.ctxFile[id] = "saved"] ELSE M

\* sketch_pad.persist(): sp is how the write ends, "written", "torn" (opened
\* and not written in full) or "not_written" (open failed); nothing is raised
sketch_persist(M, id, sp) ==
    IF sp = "not_written" THEN M
    ELSE [M EXCEPT !.sktFile[id] = IF sp = "written" THEN "snapshot" ELSE "torn"]

\* The try block of create_conversation and of save_conversation: the
\* context is persisted, then the sketch pad unless that raised
persist_both(M, id, cp, sp) ==
    LET M1 == context_persist(M, id, cp)
    IN  IF cp = "raised" THEN M1 ELSE sketch_persist(M1, id, sp)

\* A Conversation(uuid, context, sketch_pad, created_at, last_accessed)
Conversation(id, context, sketch_pad, t) ==
    [uuid |-> id, context |-> context, sketch_pad |-> sketch_pad,
     created_at |-> t, last_accessed |-> t]

\* create_conversation that does not look for an active session first
create_conversation_anew(M, id, made, cp, sp, t) ==
    LET M1 == [M EXCEPT !.nctx = @ + 1, !.contexts = Put(@, id, M.nctx + 1)]
        M2 == [M1 EXCEPT !.nskt = @ + 1, !.sketches = Put(@, id, M.nskt + 1)]
        c == Len(M.heap) + 1
        M3 == [M2 EXCEPT !.heap = Append(@, Conversation(id, M.nctx + 1, M.nskt + 1, t)),
                         !.active = Put(@, id, c)]
    IN  [mgr |-> persist_both(M3, id, cp, sp),
         conversation |-> c, exc |-> NoException]

\* ConversationManager.create_conversation
create_conversation(M, id, made, cp, sp, t) ==
    IF id \in DOMAIN M.active
    THEN [mgr |-> [M EXCEPT !.heap = update_access_time(@, M.active[id], t)],
          conversation |-> M.active[id], exc |-> NoException]
    ELSE LET r1 == create_context(M, id, made)
             r2 == create_sketch_pad(r1.mgr, id)
             c == Len(M.heap) + 1
             M3 == [r2.mgr EXCEPT
                       !.heap = Append(@, Conversation(id, r1.context, r2.sketch_pad, t)),
                       !.active = Put(@, id, c)]
         IN  IF r1.exc # NoException
             THEN [mgr |-> M, conversation |-> NoObject, exc |-> r1.exc]
             ELSE [mgr |-> persist_both(M3, id, cp, sp),
                   conversation |-> c, exc |-> NoException]

\* get_conversation that is content with one of the two stores
get_conversation_either(M, id, made, t) ==
    IF id \in DOMAIN M.active
    THEN [mgr |-> [M EXCEPT !.heap = update_access_time(@, M.active[id], t)],
          conversation |-> M.active[id]]
    ELSE LET r1 == get_context(M, id, made)
             r2 == get_sketch_pad(r1.mgr, id)
             c == Len(M.heap) + 1
         IN  IF r1.context # NoObject \/ r2.sketch_pad # NoObject
             THEN [mgr |-> [r2.mgr EXCEPT
                              !.heap = Append(@, Conversation(id, r1.context, r2.sketch_pad, t)),
                              !.active = Put(@, id, c)],
                   conversation |-> c]
             ELSE [mgr |-> r2.mgr, conversation |-> NoObject]

\* ConversationManager.get_conversation
get_conversation(M, id, made, t) ==
    IF id \in DOMAIN M.active
    THEN [mgr |-> [M EXCEPT !.heap = update_access_time(@, M.active[id], t)],
          conversation |-> M.active[id]]
    ELSE LET r1 == get_context(M, id, made)
             r2 == get_sketch_pad(r1.mgr, id)
             c == Len(M.heap) + 1
         IN  IF r1.context # NoObject /\ r2.sketch_pad # NoObject
             THEN [mgr |-> [r2.mgr EXCEPT
                              !.heap = Append(@, Conversation(id, r1.context, r2.sketch_pad, t)),
                              !.active = Put(@, id, c)],
                   conversation |-> c]
             ELSE [mgr |-> r2.mgr, conversation |-> NoObject]

\* ConversationManager.delete_conversation, with delete_context and
\* delete_sketch_pad: the maps and the files lose the id
delete_conversation(M, id) ==
    [mgr |-> [M EXCEPT !.active = Drop(@, {id}),
                       !.contexts = Drop(@, {id}),
                       !.sketches = Drop(@, {id}),
                       !.ctxFile[id] = "none",
                       !.sktFile[id] = "none"],
     success |-> \/ id \in DOMAIN M.active
                 \/ id \in DOMAIN M.contexts \/ M.ctxFile[id] # "none"
                 \/ id \in DOMAIN M.sketches \/ M.sktFile[id] # "none"]

\* `with self._lock` of the ConversationManager, an RLock owned by a thread
CanLock(M, th) == M.mlock.owner \in {NoneStr, th}
Acquire(M, th) == [M EXCEPT !.mlock = [owner |-> th, count |-> @.count + 1]]
Release(M) ==
    [M EXCEPT !.mlock = IF @.count = 1 THEN [owner |-> NoneStr, count |-> 0]
                        ELSE [@ EXCEPT !.count = @ - 1]]

\* The class-level threading.Lock of the SketchManager and of the
\* ContextManager: neither is held
LocksFree(M) == M.locks.sketch = NoneStr /\ M.locks.context = NoneStr

\* Managers with nothing active, on the files given
NewManagers(cf, sf) ==
    [active |-> EmptyMap, heap |-> <<>>, contexts |-> EmptyMap, sketches |-> EmptyMap,
     nctx |-> 0, nskt |-> 0, ctxFile |-> cf, sktFile |-> sf,
     locks |-> [sketch |-> NoneStr, context |-> NoneStr],
     mlock |-> [owner |-> NoneStr, count |-> 0]]

IdleTask(th) == [thread |-> th, pc |-> "idle", scope |-> NoObject]

MgrInit ==
    /\ current = NoObject
    /\ mgr = NewManagers([id \in Ids |-> "none"], [id \in Ids |-> "none"])
    /\ task = [k \in Tasks |-> IdleTask("main")]
    /\ mgret = [op |-> "init"]

\* What the manager actions leave alone
notmgr == <<padvars, ctxvars, msgvars, thrvars>>

\* The clock moves between two manager calls
Elapse ==
    /\ now < MaxClock
    /\ now' = now + 1
    /\ mgret' = [op |-> "elapse"]
    /\ UNCHANGED <<shared, pad, file, ret, written, persisted, ctxvars, msgvars, thrvars,
                   current, mgr, task>>

\* `with conversation:` entered by the task k, on the Conversation object c
EnterScope(k, c) ==
    /\ task[k].pc = "idle"
    /\ c \in 1..Len(mgr.heap)
    /\ LET r == Conversation_enter(current, mgr.heap, c, now)
       IN  /\ current' = r.current
           /\ mgr' = [mgr EXCEPT !.heap = r.heap]
           /\ task' = IF r.exc = NoException THEN [task EXCEPT ![k].scope = c] ELSE task
           /\ mgret' = [op |-> "enter", task |-> k, conversation |-> c,
                        outcome |-> IF r.exc = NoException THEN "entered" ELSE r.exc]
    /\ UNCHANGED notmgr

\* The with block of the task k ends, normally or by an exception
ExitScope(k, how) ==
    /\ task[k].pc = "idle"
    /\ task[k].scope # NoObject
    /\ current' = Conversation_exit(current)
    /\ task' = [task EXCEPT ![k].scope = NoObject]
    /\ mgret' = [op |-> "exit", task |-> k, conversation |-> task[k].scope, how |-> how]
    /\ UNCHANGED <<mgr, notmgr>>

\* get_current_conversation / _context / _sketch_pad called by the task k
GetCurrentCall(k) ==
    /\ task[k].pc = "idle"
    /\ mgret' = [op |-> "get_current", task |-> k,
                 conversation |-> get_current_conversation(current, k),
                 context |-> get_current_context(current, mgr.heap, k),
                 sketch_pad |-> get_current_sketch_pad(current, mgr.heap, k)]
    /\ UNCHANGED <<current, mgr, task, notmgr>>

\* The objects the model follows
WithinObjects(M) ==
    Len(M.heap) <= MaxObjects /\ M.nctx <= MaxObjects /\ M.nskt <= MaxObjects

CreateConversationCall(k, id, made, cp, sp) ==
    /\ task[k].pc = "idle"
    /\ CanLock(mgr, task[k].thread)
    /\ id \in DOMAIN mgr.active \/ LocksFree(mgr)
    /\ LET r == create_conversation(mgr, id, made, cp, sp, now)
       IN  /\ WithinObjects(r.mgr)
           /\ mgr' = r.mgr
           /\ mgret' = [op |-> "create_conversation", task |-> k, id |-> id,
                        conversation |-> r.conversation,
                        outcome |-> IF r.exc = NoException THEN "returned" ELSE "raised"]
    /\ UNCHANGED <<current, task, notmgr>>

GetConversationCall(k, id, made) ==
    /\ task[k].pc = "idle"
    /\ CanLock(mgr, task[k].thread)
    /\ id \in DOMAIN mgr.active \/ LocksFree(mgr)
    /\ LET r == get_conversation(mgr, id, made, now)
       IN  /\ WithinObjects(r.mgr)
           /\ mgr' = r.mgr
           /\ mgret' = [op |-> "get_conversation", task |-> k, id |-> id,
                        conversation |-> r.conversation]
    /\ UNCHANGED <<current, task, notmgr>>

DeleteConversationCall(k, id) ==
    /\ task[k].pc = "idle"
    /\ CanLock(mgr, task[k].thread)
    /\ LocksFree(mgr)
    /\ LET r == delete_conversation(mgr, id)
       IN  /\ mgr' = r.mgr
           /\ mgret' = [op |-> "delete_conversation", task |-> k, id |-> id,
                        result |-> r.success]
    /\ UNCHANGED <<current, task, notmgr>>

\* save_conversation from its `with self._lock` to `await context.persist()`
SaveBegin(k, id) ==
    /\ task[k].pc = "idle"
    /\ CanLock(mgr, task[k].thread)
    /\ IF id \in DOMAIN mgr.active
       THEN /\ mgr' = Acquire(mgr, task[k].thread)
            /\ task' = [task EXCEPT ![k] = [thread |-> @.thread, pc |-> "save_await",
                                           scope |-> @.scope, id |-> id]]
            /\ mgret' = [op |-> "save_conversation_await", task |-> k, id |-> id]
       ELSE /\ mgret' = [op |-> "save_conversation", task |-> k, id |-> id,
                         result |-> FALSE, written |-> FALSE]
            /\ UNCHANGED <<shared, mgr, task>>
    /\ UNCHANGED <<current, notmgr>>

\* save_conversation from the end of the await to its return
save_conversation_resume(M, id, cp, sp) ==
    [mgr |-> persist_both(M, id, cp, sp), result |-> cp = "saved"]

SaveResume(k, cp, sp) ==
    /\ task[k].pc = "save_await"
    /\ LET r == save_conversation_resume(mgr, task[k].id, cp, sp)
       IN  /\ mgr' = Release(r.mgr)
           /\ mgret' = [op |-> "save_conversation", task |-> k, id |-> task[k].id,
                        result |-> r.result,
                        written |-> cp = "saved" /\ sp = "written"]
    /\ task' = [task EXCEPT ![k] = [thread |-> @.thread, pc |-> "idle", scope |-> @.scope]]
    /\ UNCHANGED <<current, notmgr>>

\* inactive_time > max_inactive_time, for the session id of the managers M
Inactive(M, id, t0, max) == t0 - M.heap[M.active[id]].last_accessed > max

\* The sessions the loop of cleanup_inactive_conversations has still to save:
\* the dict is walked in insertion order, past the object at st.pos
StillDue(M, st) ==
    {id \in DOMAIN M.active : M.active[id] > st.pos /\ Inactive(M, id, st.t0, st.max)}

\* `del self._active_conversations[id]` for the ids of the list, in order;
\* the first id that is gone raises KeyError
RECURSIVE RemoveAll(_, _)
RemoveAll(active, remove) ==
    IF remove = <<>> THEN [active |-> active, exc |-> NoException]
    ELSE IF Head(remove) \notin DOMAIN active THEN [active |-> active, exc |-> "KeyError"]
    ELSE RemoveAll(Drop(active, {Head(remove)}), Tail(remove))

CleanupReport(k, st, outcome) ==
    [op |-> "cleanup", task |-> k, outcome |-> outcome, count |-> st.count,
     due |-> st.due, kept |-> st.kept, saved |-> st.saved]

\* cleanup_inactive_conversations from the top of its loop to the next await,
\* or to its end; M holds the lock, st is the state of the call
CleanupAdvance(k, M, st) ==
    IF Cardinality(DOMAIN M.active) # st.size
    THEN /\ mgr' = Release(M)
         /\ task' = [task EXCEPT ![k] = [thread |-> @.thread, pc |-> "idle", scope |-> @.scope]]
         /\ mgret' = CleanupReport(k, st, "RuntimeError")
    ELSE IF StillDue(M, st) = {}
    THEN LET r == RemoveAll(M.active, st.remove)
         IN  /\ mgr' = Release([M EXCEPT !.active = r.active])
             /\ task' = [task EXCEPT ![k] = [thread |-> @.thread, pc |-> "idle",
                                            scope |-> @.scope]]
             /\ mgret' = CleanupReport(k, st, IF r.exc = NoException THEN "returned" ELSE r.exc)
    ELSE LET id == CHOOSE i \in StillDue(M, st) :
                       \A j \in StillDue(M, st) : M.active[i] <= M.active[j]
         IN  /\ mgr' = Acquire(M, st.thread)
             /\ task' = [task EXCEPT ![k] = [st EXCEPT !.pc = "cleanup_await", !.id = id,
                                                       !.pos = M.active[id]]]
             /\ mgret' = [op |-> "cleanup_await", task |-> k, id |-> id]

CleanupBegin(k, max) ==
    /\ task[k].pc = "idle"
    /\ CanLock(mgr, task[k].thread)
    /\ LET due == {id \in DOMAIN mgr.active : Inactive(mgr, id, now, max)}
       IN  CleanupAdvance(k, Acquire(mgr, task[k].thread),
               [thread |-> task[k].thread, pc |-> "cleanup", scope |-> task[k].scope,
                id |-> NoneStr, max |-> max, t0 |-> now, pos |-> 0, remove |-> <<>>,
                count |-> 0, size |-> Cardinality(DOMAIN mgr.active),
                due |-> due, kept |-> (DOMAIN mgr.active) \ due, saved |-> {}])
    /\ UNCHANGED <<current, notmgr>>

CleanupResume(k, cp, sp) ==
    /\ task[k].pc = "cleanup_await"
    /\ LET st == task[k]
           r == save_conversation_resume(mgr, st.id, cp, sp)
       IN  CleanupAdvance(k, Release(r.mgr),
               [st EXCEPT !.pc = "cleanup",
                          !.remove = Append(@, st.id),
                          !.count = @ + 1,
                          !.saved = IF cp = "saved" /\ sp = "written"
                                    THEN @ \cup {st.id} ELSE @])
    /\ UNCHANGED <<current, notmgr>>

\* SketchManager.save_sketch_pad once its lock is taken: persist() returns
\* nothing and raises nothing, so an active id gives True
save_sketch_pad(M, id, sp) ==
    IF id \in DOMAIN M.sketches
    THEN [mgr |-> sketch_persist(M, id, sp), result |-> TRUE]
    ELSE [mgr |-> M, result |-> FALSE]

\* ContextManager.save_context once its lock is taken: the result of
\* context.persist(), False when that raises or the id is not active
ContextManager_save_context(M, id, cp) ==
    IF id \in DOMAIN M.contexts
    THEN [mgr |-> context_persist(M, id, cp), result |-> cp = "saved"]
    ELSE [mgr |-> M, result |-> FALSE]

\* save_sketch_pad / save_context of the manager `which`; how is sp or cp
save_one(M, which, id, how) ==
    IF which = "sketch" THEN save_sketch_pad(M, id, how) ELSE ContextManager_save_context(M, id, how)

\* How the persist of the manager `which` may end
Persists(which) == IF which = "sketch" THEN SketchPersists ELSE ContextPersists

\* save_all_sketch_pads / save_all_contexts: `with self._lock` and
\* list(self._active_....keys())
SaveAllBegin(k, which) ==
    /\ task[k].pc = "idle"
    /\ mgr.locks[which] = NoneStr
    /\ mgr' = [mgr EXCEPT !.locks[which] = k]
    /\ task' = [task EXCEPT ![k] = [thread |-> @.thread, pc |-> "save_all", scope |-> @.scope,
                                    which |-> which, count |-> 0,
                                    todo |-> IF which = "sketch" THEN DOMAIN mgr.sketches
                                             ELSE DOMAIN mgr.contexts]]
    /\ mgret' = [op |-> "save_all_begin", task |-> k, which |-> which]
    /\ UNCHANGED <<current, notmgr>>

\* save_sketch_pad / save_context, called by a task of its own or from the
\* loop of save_all: `with self._lock` waits until the lock is free
SaveOne(k, which, id, how) ==
    /\ \/ task[k].pc = "idle"
       \/ task[k].pc = "save_all" /\ task[k].which = which /\ id \in task[k].todo
    /\ mgr.locks[which] = NoneStr
    /\ how \in Persists(which)
    /\ LET r == save_one(mgr, which, id, how)
       IN  /\ mgr' = r.mgr
           /\ mgret' = [op |-> "save_one", task |-> k, which |-> which, id |-> id,
                        result |-> r.result,
                        written |-> r.result /\ how \in {"saved", "written"}]
           /\ task' = IF task[k].pc = "idle" THEN task
                      ELSE [task EXCEPT ![k].todo = @ \ {id},
                                        ![k].count = @ + (IF r.result THEN 1 ELSE 0)]
    /\ UNCHANGED <<current, notmgr>>

\* save_all_...: the loop is over, the lock is released, the count returned
SaveAllEnd(k) ==
    /\ task[k].pc = "save_all"
    /\ task[k].todo = {}
    /\ mgr' = [mgr EXCEPT !.locks[task[k].which] = NoneStr]
    /\ mgret' = [op |-> "save_all", task |-> k, which |-> task[k].which,
                 count |-> task[k].count]
    /\ task' = [task EXCEPT ![k] = [thread |-> @.thread, pc |-> "idle", scope |-> @.scope]]
    /\ UNCHANGED <<current, notmgr>>

\* ------------------------------------------ the ContextManager, step by step
\* ContextManager.delete_context: the map and the file lose the id
delete_context(M, id) ==
    [mgr |-> [M EXCEPT !.contexts = Drop(@, {id}), !.ctxFile[id] = "none"],
     success |-> id \in DOMAIN M.contexts \/ M.ctxFile[id] # "none"]

\* A thread that waits inside threading.Lock.acquire runs nothing else: no
\* task of an event loop moves while another task of its thread waits
Runs(k) == \A j \in Tasks \ {k} : task[j].thread = task[k].thread => task[j].pc # "ctx_wait"

\* get_context, create_context or delete_context once the lock is taken
ctx_call(M, name, id, made) ==
    CASE name = "get_context" -> get_context(M, id, made).mgr
      [] name = "create_context" -> create_context(M, id, made).mgr
      [] name = "delete_context" -> delete_context(M, id).mgr

\* save_context: `with self._lock`, and for an active id the coroutine is
\* suspended at `await context.persist()` with the lock taken
CtxSaveBegin(k, id) ==
    /\ task[k].pc = "idle" /\ Runs(k)
    /\ mgr.locks.context = NoneStr
    /\ IF id \in DOMAIN mgr.contexts
       THEN /\ mgr' = [mgr EXCEPT !.locks.context = k]
            /\ task' = [task EXCEPT ![k] = [thread |-> @.thread, pc |-> "ctx_save_await",
                                            scope |-> @.scope, id |-> id]]
            /\ mgret' = [op |-> "ctx_save_begin", task |-> k, id |-> id]
       ELSE /\ mgret' = [op |-> "ctx_save", task |-> k, id |-> id, result |-> FALSE]
            /\ UNCHANGED <<mgr, task>>
    /\ UNCHANGED <<current, notmgr>>

\* save_context resumes: persist has ended as cp, the lock is released
CtxSaveResume(k, cp) ==
    /\ task[k].pc = "ctx_save_await" /\ Runs(k)
    /\ LET r == ContextManager_save_context(mgr, task[k].id, cp)
       IN  /\ mgr' = [r.mgr EXCEPT !.locks.context = NoneStr]
           /\ mgret' = [op |-> "ctx_save", task |-> k, id |-> task[k].id, result |-> r.result]
    /\ task' = [task EXCEPT ![k] = IdleTask(@.thread)]
    /\ UNCHANGED <<current, notmgr>>

\* cleanup_inactive_contexts: `with self._lock`; due are the contexts whose
\* last_activity is older than max_inactive_time; the coroutine is suspended
\* at the `await context.persist()` of the first of them
CtxCleanupBegin(k, due) ==
    /\ task[k].pc = "idle" /\ Runs(k)
    /\ mgr.locks.context = NoneStr
    /\ due \subseteq DOMAIN mgr.contexts
    /\ IF due # {}
       THEN /\ mgr' = [mgr EXCEPT !.locks.context = k]
            /\ task' = [task EXCEPT ![k] = [thread |-> @.thread, pc |-> "ctx_cleanup_await",
                                            scope |-> @.scope, todo |-> due, remove |-> {}]]
            /\ mgret' = [op |-> "ctx_cleanup_begin", task |-> k]
       ELSE /\ mgret' = [op |-> "ctx_cleanup", task |-> k, count |-> 0]
            /\ UNCHANGED <<mgr, task>>
    /\ UNCHANGED <<current, notmgr>>

\* cleanup_inactive_contexts resumes: the persist of id has ended as cp (one
\* that raised is caught and the context stays); after the last one the
\* contexts to remove leave the map and the lock is released
CtxCleanupResume(k, id, cp) ==
    /\ task[k].pc = "ctx_cleanup_await" /\ Runs(k)
    /\ id \in task[k].todo
    /\ LET M1 == context_persist(mgr, id, cp)
           remove == IF cp = "raised" THEN task[k].remove ELSE task[k].remove \cup {id}
           todo == task[k].todo \ {id}
       IN  IF todo # {}
           THEN /\ mgr' = M1
                /\ task' = [task EXCEPT ![k].todo = todo, ![k].remove = remove]
                /\ mgret' = [op |-> "ctx_cleanup_step", task |-> k]
           ELSE /\ mgr' = [M1 EXCEPT !.contexts = Drop(@, remove), !.locks.context = NoneStr]
                /\ task' = [task EXCEPT ![k] = IdleTask(@.thread)]
                /\ mgret' = [op |-> "ctx_cleanup", task |-> k, count |-> Cardinality(remove)]
    /\ UNCHANGED <<current, notmgr>>

\* get_context, create_context or delete_context: `with self._lock` runs
\* the call when the lock is free, and otherwise waits in acquire
CtxCall(k, name, id, made) ==
    /\ task[k].pc = "idle" /\ Runs(k)
    /\ IF mgr.locks.context = NoneStr
       THEN /\ WithinObjects(ctx_call(mgr, name, id, made))
            /\ mgr' = ctx_call(mgr, name, id, made)
            /\ mgret' = [op |-> "ctx_call", task |-> k, name |-> name, id |-> id]
            /\ task' = task
       ELSE /\ task' = [task EXCEPT ![k] = [thread |-> @.thread, pc |-> "ctx_wait",
                                            scope |-> @.scope, name |-> name, id |-> id,
                                            made |-> made]]
            /\ mgret' = [op |-> "ctx_wait", task |-> k, name |-> name, id |-> id]
            /\ mgr' = mgr
    /\ UNCHANGED <<current, notmgr>>

\* The lock has been released: the waiting call takes it and runs
CtxCallEnter(k) ==
    /\ task[k].pc = "ctx_wait"
    /\ mgr.locks.context = NoneStr
    /\ LET st == task[k]
       IN  /\ WithinObjects(ctx_call(mgr, st.name, st.id, st.made))
           /\ mgr' = ctx_call(mgr, st.name, st.id, st.made)
           /\ mgret' = [op |-> "ctx_call", task |-> k, name |-> st.name, id |-> st.id]
    /\ task' = [task EXCEPT ![k] = IdleTask(@.thread)]
    /\ UNCHANGED <<current, notmgr>>

\* The process ends and starts again: the managers are built anew on the files
Restart ==
    /\ mgr' = NewManagers(mgr.ctxFile, mgr.sktFile)
    /\ current' = NoObject
    /\ task' = [k \in Tasks |-> IdleTask(task[k].thread)]
    /\ mgret' = [op |-> "restart"]
    /\ UNCHANGED notmgr

\* ---------------------------------------------------------- specifications
\* The sketch pad as the tools use it: writes, reads, deletes, tag search
KeysPad == {"a", "x:tag:y"}

Init == PadInit /\ CtxInit /\ MsgInit /\ ThrInit /\ MgrInit

Next ==
    \/ \E key \in KeysPad, w \in Writes, tags \in SUBSET Tags :
           SetItemCall(key, w.value, NoneInt, w.summary, tags)
    \/ \E key \in KeysPad : GetItemCall(key)
    \/ \E key \in KeysPad : DeleteCall(key)
    \/ ClearCall
    \/ \E tags \in SUBSET Tags, match_all \in BOOLEAN : SearchByTagsCall(tags, match_all)

Spec == Init /\ [][Next]_vars

\* Time to live: writes with a ttl, reads, and the clock
KeysTTL == {"a", "b"}
TTLsSet == {NoneInt, 1, 2}

NextTTL ==
    \/ Tick
    \/ \E key \in KeysTTL, ttl \in TTLsSet : SetItemCall(key, "v1", ttl, NoneStr, {})
    \/ \E key \in KeysTTL : GetItemCall(key)
    \/ \E key \in KeysTTL : DeleteCall(key)

SpecTTL == Init /\ [][NextTTL]_vars

\* Capacity: writes and reads of three keys as time passes
KeysCap == {"a", "b", "c"}

NextCap ==
    \/ Tick
    \/ \E key \in KeysCap : SetItemCall(key, "v1", NoneInt, NoneStr, {})
    \/ \E key \in KeysCap : GetItemCall(key)

SpecCap == Init /\ [][NextCap]_vars

\* Snapshots: persist, a new instance, restore, and the in-memory round trip
WritesSnap == {[value |-> "v1", summary |-> NoneStr, tags |-> {}],
               [value |-> "v2", summary |-> "s", tags |-> {"t1"}]}

NextSnap ==
    \/ \E key \in KeysPad, w \in WritesSnap :
           SetItemCall(key, w.value, NoneInt, w.summary, w.tags)
    \/ PersistCall
    \/ RestoreCall
    \/ NewInstance
    \/ RoundTripCall

SpecSnap == Init /\ [][NextSnap]_vars

\* The conversation context under every configuration
CtxConfigs ==
    {CtxNew(l, n, f) : l \in BOOLEAN, n \in 0..MaxLength, f \in BOOLEAN}

ExternalLists == UNION {[1..n -> ExternalMsgs] : n \in 0..MaxExternal}

InitCtx ==
    /\ PadInit
    /\ MsgInit
    /\ ThrInit
    /\ MgrInit
    /\ ctx \in CtxConfigs
    /\ ctxFile = [exists |-> FALSE]
    /\ cret = [op |-> "init", outcome |-> "returned", compacted |-> FALSE,
               summary |-> <<>>, external |-> <<>>, appended |-> <<>>]

NextCtx ==
    \/ \E m \in ExternalMsgs : AddMessageCall(m.role, m.content)
    \/ \E external_history \in ExternalLists : SyncCall(external_history)

SpecCtx == InitCtx /\ [][NextCtx]_vars

\* Messages built and handed to a History
NextMsg ==
    \E role \in Roles, content \in Contents, tool_calls \in ToolCallLists,
       tool_call_id \in ToolCallIds :
        StoreMessageCall(role, content, tool_calls, tool_call_id)

SpecMsg == Init /\ [][NextMsg]_vars

\* Restore from whatever the file holds: no file, a file that is not JSON,
\* JSON whose items are a list, snapshots with well-formed and malformed items
KeysFile == {"a", "b"}

\* An item as SketchPadItem.to_dict writes it: ISO strings, tags as a list
WellFormedItem ==
    [value |-> "v2",
     timestamp |-> [py |-> "str", at |-> 0],
     summary |-> "s",
     expires_at |-> [py |-> "None", at |-> NoneInt],
     access_count |-> 1,
     last_accessed |-> [py |-> "str", at |-> 0],
     tags |-> [py |-> "list", elems |-> {"t1"}],
     content_type |-> "text",
     content_hash |-> ContentHash("v2")]

\* The same with tags written as str(set), and an item that is no mapping
MalformedItems ==
    {[WellFormedItem EXCEPT !.tags = [py |-> "str", elems |-> {"t1"}]], [py |-> "str"]}

SnapshotFiles ==
    {[exists |-> FALSE],
     [exists |-> TRUE, torn |-> TRUE],
     [exists |-> TRUE, sketch_pad_id |-> "id"],
     [exists |-> TRUE, items |-> [py |-> "list"]]}
    \cup {[exists |-> TRUE, items |-> items] :
            items \in UNION {[K -> {WellFormedItem} \cup MalformedItems] : K \in SUBSET KeysFile}}

InitRestore ==
    /\ now = 0
    /\ pad = EmptyStore
    /\ file \in SnapshotFiles
    /\ ret = [op |-> "init"]
    /\ written = EmptyMap
    /\ persisted = EmptyMap
    /\ shared = NoKeys
    /\ CtxInit
    /\ MsgInit
    /\ ThrInit
    /\ MgrInit

NextRestore ==
    \/ \E key \in KeysFile, w \in WritesSnap :
           SetItemCall(key, w.value, NoneInt, w.summary, w.tags)
    \/ \E key \in KeysFile : DeleteCall(key)
    \/ RestoreCall

SpecRestore == InitRestore /\ [][NextRestore]_vars

\* persist and writes by two threads on one store, with crashes
KeysThr == {"a"}

NextPersist ==
    \/ \E w \in Threads, key \in KeysThr, x \in WritesSnap :
           SetItemEnter(w, key, x.value, x.summary, x.tags)
    \/ \E w \in Threads : SetItemLeave(w)
    \/ \E w \in Threads, key \in KeysThr : DeleteBy(w, key)
    \/ \E w \in Threads : PersistSerialize(w)
    \/ \E w \in Threads : PersistOpen(w)
    \/ \E w \in Threads : PersistWrite(w)
    \/ \E w \in Threads : PersistWriteError(w)
    \/ Crash

SpecPersist == Init /\ [][NextPersist]_vars

\* Scopes entered and left by two tasks, on sessions that persist well
NextScope ==
    \/ \E k \in Tasks, id \in Ids : CreateConversationCall(k, id, "ok", "saved", "written")
    \/ \E k \in Tasks, c \in 1..MaxObjects : EnterScope(k, c)
    \/ \E k \in Tasks, how \in {"normal", "exception"} : ExitScope(k, how)
    \/ \E k \in Tasks : GetCurrentCall(k)
    \/ Elapse

SpecScope == Init /\ [][NextScope]_vars

\* The managers called by two tasks, of one event loop or of two threads
LoopThreads == {"main", "worker"}
MaxIdles == {0, 1}

InitMgr ==
    /\ PadInit
    /\ CtxInit
    /\ MsgInit
    /\ ThrInit
    /\ current = NoObject
    /\ mgr = NewManagers([id \in Ids |-> "none"], [id \in Ids |-> "none"])
    /\ \E th \in LoopThreads : task = [k \in Tasks |-> IdleTask(IF k = "k1" THEN "main" ELSE th)]
    /\ mgret = [op |-> "init"]

\* The session the calls of this specification are about
IdsMgr == {"A"}

NextMgr ==
    \/ \E k \in Tasks, id \in IdsMgr, made \in Made, cp \in ContextPersists, sp \in SketchPersists :
           CreateConversationCall(k, id, made, cp, sp)
    \/ \E k \in Tasks, id \in IdsMgr, made \in Made : GetConversationCall(k, id, made)
    \/ \E k \in Tasks, id \in IdsMgr : DeleteConversationCall(k, id)
    \/ Restart
    \/ Elapse

SpecMgr == InitMgr /\ [][NextMgr]_vars

\* One caller that creates sessions, lets them idle and cleans up
NextCleanup ==
    \/ \E id \in Ids, cp \in ContextPersists, sp \in SketchPersists :
           CreateConversationCall("k1", id, "ok", cp, sp)
    \/ \E id \in Ids : GetConversationCall("k1", id, "ok")
    \/ \E max \in MaxIdles : CleanupBegin("k1", max)
    \/ \E cp \in ContextPersists, sp \in SketchPersists : CleanupResume("k1", cp, sp)
    \/ Elapse

SpecCleanup == InitMgr /\ [][NextCleanup]_vars

\* Two callers, one of them suspended inside save_conversation or cleanup
NextLock ==
    \/ \E k \in Tasks, id \in Ids : CreateConversationCall(k, id, "ok", "saved", "written")
    \/ \E k \in Tasks, id \in Ids : GetConversationCall(k, id, "ok")
    \/ \E k \in Tasks, id \in Ids : DeleteConversationCall(k, id)
    \/ \E k \in Tasks, id \in Ids : SaveBegin(k, id)
    \/ \E k \in Tasks : SaveResume(k, "saved", "written")
    \/ \E k \in Tasks, max \in MaxIdles : CleanupBegin(k, max)
    \/ \E k \in Tasks : CleanupResume(k, "saved", "written")
    \/ Elapse

SpecLock == InitMgr /\ [][NextLock]_vars

\* Explicit saves, of one store, of all stores and of a conversation
Managers == {"sketch", "context"}

NextSave ==
    \/ \E k \in Tasks, id \in Ids, cp \in ContextPersists, sp \in SketchPersists :
           CreateConversationCall(k, id, "ok", cp, sp)
    \/ \E k \in Tasks, which \in Managers, id \in Ids :
           \E how \in Persists(which) : SaveOne(k, which, id, how)
    \/ \E k \in Tasks, which \in Managers : SaveAllBegin(k, which)
    \/ \E k \in Tasks : SaveAllEnd(k)
    \/ \E k \in Tasks, id \in Ids : SaveBegin(k, id)
    \/ \E k \in Tasks, cp \in ContextPersists, sp \in SketchPersists : SaveResume(k, cp, sp)

SpecSave == InitMgr /\ [][NextSave]_vars

\* One turn of the agent: the packages of a stream, then its end
NextTurn ==
    \/ \E delta \in Deltas, new \in Batches : StreamPackage(delta, new)
    \/ StreamEnd

SpecTurn == Init /\ [][NextTurn]_vars

\* Reads of a pad whose fast tier comes and goes
Reads == {"get_item", "exists", "keys"}

NextDown ==
    \/ Tick
    \/ \E key \in KeysTTL, ttl \in TTLsSet : SetItemCall(key, "v1", ttl, NoneStr, {})
    \/ \E name \in Reads, key \in KeysTTL, up \in BOOLEAN : ReadCall(name, key, up)

SpecDown == Init /\ [][NextDown]_vars

\* The pads of two sessions over one Redis database
NextShared ==
    \/ \E id \in SessionIds, key \in SessionKeys, value \in Values : SharedSetItem(id, key, value)
    \/ \E id \in SessionIds, key \in SessionKeys : SharedGetItem(id, key)
    \/ \E id \in SessionIds, key \in SessionKeys : SharedDelete(id, key)
    \/ \E id \in SessionIds : SharedKeys(id)
    \/ \E id \in SessionIds : SharedClear(id)

SpecShared == Init /\ [][NextShared]_vars

\* Two session ids under one set of managers, one caller; the clock moves
\* once, which is what a cleanup with max_idle_hours 0 needs
NextPair ==
    \/ \E id \in Ids, made \in Made, sp \in {"written", "not_written"} :
           CreateConversationCall("k1", id, made, "saved", sp)
    \/ \E id \in Ids, made \in Made : GetConversationCall("k1", id, made)
    \/ \E id \in Ids : DeleteConversationCall("k1", id)
    \/ CleanupBegin("k1", 0)
    \/ CleanupResume("k1", "saved", "written")
    \/ Restart
    \/ now = 0 /\ Elapse

SpecPair == InitMgr /\ [][NextPair]_vars

\* The ContextManager called by two tasks, of one event loop or of two threads
CtxCalls == {"get_context", "create_context", "delete_context"}

NextCtxMgr ==
    \/ \E k \in Tasks, name \in CtxCalls, id \in Ids, made \in Made : CtxCall(k, name, id, made)
    \/ \E k \in Tasks : CtxCallEnter(k)
    \/ \E k \in Tasks, id \in Ids : CtxSaveBegin(k, id)
    \/ \E k \in Tasks, cp \in ContextPersists : CtxSaveResume(k, cp)
    \/ \E k \in Tasks, due \in SUBSET Ids : CtxCleanupBegin(k, due)
    \/ \E k \in Tasks, id \in Ids, cp \in ContextPersists : CtxCleanupResume(k, id, cp)

SpecCtxMgr == InitMgr /\ [][NextCtxMgr]_vars

\* A session's pad that is deleted and created again under the same id
NextDelete ==
    \/ \E key \in KeysTTL : SetItemCall(key, "v1", NoneInt, NoneStr, {})
    \/ \E key \in KeysTTL : GetItemCall(key)
    \/ PersistCall
    \/ DeleteSketchPadCall
    \/ CreateSketchPadCall

SpecDelete == Init /\ [][NextDelete]_vars

\* Tagged writes, deletes, and keys()
NextKeys ==
    \/ \E key \in KeysPad, w \in Writes, tags \in SUBSET Tags :
           SetItemCall(key, w.value, NoneInt, w.summary, tags)
    \/ \E key \in KeysPad : DeleteCall(key)
    \/ ReadCall("keys", "a", TRUE)

SpecKeys == Init /\ [][NextKeys]_vars

\* Content search over items that were written, read and tagged
Queries == {"v1", "V1", "t1", "a"}
Limits == {1, 2}
KeysSearch == {"a", "b"}

NextSearch ==
    \/ \E key \in KeysSearch, w \in Writes, tags \in SUBSET {"t1"} :
           SetItemCall(key, w.value, NoneInt, w.summary, tags)
    \/ \E key \in KeysSearch : GetItemCall(key)
    \/ \E query \in Queries, limit \in Limits : SearchByContentCall(query, limit)
    \/ Tick

SpecSearch == Init /\ [][NextSearch]_vars

\* A history that a chat list is synced into, and searched; the list may
\* hold an assistant message whose content is None (a tool call)
HistMsgs == ExternalMsgs \cup {[role |-> "assistant", content |-> NoneSeq]}
HistLists == UNION {[1..n -> HistMsgs] : n \in 0..MaxExternal}
HistQueries == {"q", "Q", "r"}
HistLimits == {1, 2}

InitHist ==
    /\ PadInit
    /\ MsgInit
    /\ ThrInit
    /\ MgrInit
    /\ ctx = CtxNew(FALSE, MaxLength, FALSE)
    /\ ctxFile = [exists |-> FALSE]
    /\ cret = [op |-> "init", outcome |-> "returned", compacted |-> FALSE,
               summary |-> <<>>, external |-> <<>>, appended |-> <<>>]

NextHist ==
    \/ \E m \in ExternalMsgs : AddMessageCall(m.role, m.content)
    \/ \E external_history \in HistLists : SyncCall(external_history)
    \/ \E query \in HistQueries, limit \in HistLimits : SearchHistoryCall(query, limit)

SpecHist == InitHist /\ [][NextHist]_vars

\* ------------------------------------------------------------ claims, pad
\* The recency eviction goes by: lastAccessed, else timestamp
Recency(item) ==
    IF item.last_accessed # NoneInt THEN item.last_accessed ELSE item.timestamp

\* C1: an item written by set_item with ttl = t is returned by get_item at
\* every time before timestamp + t and is absent at every time from
\* timestamp + t on, whatever calls (earlier reads of the key among them)
\* came in between.
C1_TTL ==
    (ret.op = "get_item" /\ ret.key \in DOMAIN written /\ written[ret.key].ttl # NoneInt)
        => ((ret.item # NoItem) <=> (now < written[ret.key].ts + written[ret.key].ttl))

\* C2: with maxItems = 2, after every set_item the pad holds at most 2 items,
\* and the keys the call removed are ones no surviving key is older than
\* (by lastAccessed, else timestamp).
C2_Capacity ==
    [][ret'.op = "set_item" =>
          /\ Cardinality(DOMAIN pad'.redis) <= 2
          /\ \A r \in (DOMAIN pad.redis) \ (DOMAIN pad'.redis), k \in DOMAIN pad'.redis :
                 Recency(pad.redis[r].item) <= Recency(pad'.redis[k].item)]_vars

C4_TagSearch ==
    ret.op = "search_by_tags" =>
        /\ ResultKeys(ret.result) \subseteq DOMAIN pad.redis
        /\ \A k \in DOMAIN pad.redis :
              (k \in ResultKeys(ret.result)) <=>
                  (IF ret.match_all
                   THEN ret.tags \subseteq pad.redis[k].item.tags
                   ELSE ret.tags \cap pad.redis[k].item.tags # {})

\* C5: after persist(), a new instance for the same file on an empty fast
\* tier that calls restore() has as keys() the keys persisted, each item with
\* the content_hash and the tags it had when persisted.
C5_PersistRestore ==
    (ret.op = "restore" /\ ret.after = "new_instance" /\ file.exists) =>
        /\ keys(pad) = DOMAIN persisted
        /\ \A k \in DOMAIN persisted :
              /\ k \in DOMAIN pad.redis
              /\ pad.redis[k].item.content_hash = persisted[k].content_hash
              /\ pad.redis[k].item.tags = persisted[k].tags

\* C6: deserialize(serialize(S)) into an empty store gives a store with the
\* keys of S and, per key, the value, tags, summary and content_hash of S.
C6_RoundTrip ==
    ret.op = "roundtrip" =>
        /\ DOMAIN ret.copy.redis = DOMAIN pad.redis
        /\ \A k \in DOMAIN pad.redis :
              /\ k \in DOMAIN ret.copy.redis
              /\ ret.copy.redis[k].item.value = pad.redis[k].item.value
              /\ ret.copy.redis[k].item.tags = pad.redis[k].item.tags
              /\ ret.copy.redis[k].item.summary = pad.redis[k].item.summary
              /\ ret.copy.redis[k].item.content_hash = pad.redis[k].item.content_hash

\* -------------------------------------------------------- claims, history
\* s is the beginning of t
IsPrefix(s, t) == Len(s) <= Len(t) /\ SubSeq(t, 1, Len(s)) = s

\* The text of a summary, None being no text
SummaryText(s) == IF s = NoneSeq THEN <<>> ELSE s

\* C7 as claimed: after each add_message / sync_with_external_history call
\* that returns, the history holds at most max_history_length messages, for
\* every max_history_length and every configuration.
C7_BoundedAlways ==
    cret.outcome = "returned" => Len(ctx.history) <= ctx.max_history_length

\* C7 amended: with a summarizer configured (llm_interface) and
\* max_history_length >= 1, after each add_message / sync_with_external_history
\* call that returns the history holds at most max_history_length messages.
C7_BoundedWithSummarizer ==
    (ctx.llm_interface /\ ctx.max_history_length >= 1 /\ cret.outcome = "returned")
        => Len(ctx.history) <= ctx.max_history_length

\* C7 witness: a call that overflowed a history of a context with a
\* summarizer, compacted it and returned
C7_Witness ==
    /\ ctx.llm_interface
    /\ ctx.max_history_length >= 1
    /\ cret.op \in {"add_message", "sync"}
    /\ cret.outcome = "returned"
    /\ cret.compacted
    /\ Len(ctx.history) = 1

\* C8: a compaction keeps the summary held before it, unchanged, at the
\* beginning of the summary held after it; the new summary is appended after
\* a separator when there was one, and is the summary when there was none.
C8_SummaryAccumulates ==
    [][cret'.compacted =>
          /\ IsPrefix(SummaryText(ctx.conversation_summary), ctx'.conversation_summary)
          /\ ctx'.conversation_summary =
                 IF StrTruthy(ctx.conversation_summary)
                 THEN ctx.conversation_summary \o <<"\n\n">> \o cret'.summary
                 ELSE cret'.summary]_vars

\* C8 witness: a second compaction has appended its summary to the first
C8_Witness ==
    /\ cret.compacted
    /\ cret.summary # <<>>
    /\ ctx.conversation_summary = <<"sum", "\n\n">> \o cret.summary

\* C9: a sync_with_external_history(L) that follows a
\* sync_with_external_history(L) appends nothing, and a
\* sync_with_external_history(L + [m]) that follows a
\* sync_with_external_history(L) appends exactly [m].
C9_SyncIdempotent ==
    [][(cret.op = "sync" /\ cret.outcome = "returned" /\ cret'.op = "sync") =>
          /\ cret'.external = cret.external => cret'.appended = <<>>
          /\ \A m \in ExternalMsgs :
                 cret'.external = Append(cret.external, m) => cret'.appended = <<m>>]_vars

\* ---------------------------------------------------------- claims, message
\* C10: building a Message with role assistant, tool calls and a content, or
\* with role tool and no tool_call_id, raises a ValidationError to the caller,
\* and no message reaches a History.
C10_InvalidMessageRejected ==
    [][(/\ mret'.op = "Message"
        /\ \/ /\ mret'.role = "assistant"
              /\ mret'.tool_calls \notin {NoneSeq, <<>>}
              /\ mret'.content # NoneStr
           \/ /\ mret'.role = "tool"
              /\ mret'.tool_call_id = NoneStr)
       => /\ mret'.outcome = "ValidationError"
          /\ stored' = stored
          /\ ctx' = ctx]_vars

\* C10 witness: a Message of role tool without tool_call_id was refused while
\* the History held a message
C10_Witness ==
    /\ mret.op = "Message"
    /\ mret.role = "tool"
    /\ mret.tool_call_id = NoneStr
    /\ mret.outcome = "ValidationError"
    /\ Len(stored) = 1

\* C20: an add_message whose compaction met a failing summarizer still
\* returns to its caller, with the new message recorded and the history not
\* compacted.
C20_SummarizerFailureTolerated ==
    [][(cret'.op = "add_message" /\ cret'.summary = SummarizerError) =>
          /\ cret'.outcome = "returned"
          /\ ~cret'.compacted
          /\ Len(ctx'.history) = Len(ctx.history) + 1]_vars

\* ------------------------------------------------------ claims, snapshots
\* The file is a snapshot json.load reads and deserialize can walk
Loadable(f) == f.exists /\ json_load(f).exc = NoException /\ "items" \in DOMAIN f /\ "py" \notin DOMAIN f.items

\* C17: restore() returns without raising; with no file or a file it cannot
\* load the store is as before; with a snapshot, each well-formed item is in
\* the store afterwards and each malformed item leaves its key as it was.
C17_RestoreFailsSoft ==
    [][ret'.op = "restore" =>
          /\ ret'.outcome = "returned"
          /\ ~Loadable(file) => pad' = pad
          /\ Loadable(file) =>
                \A k \in DOMAIN file.items :
                    IF ValidItemData(file.items[k])
                    THEN /\ k \in DOMAIN pad'.redis
                         /\ pad'.redis[k].item.value = file.items[k].value
                         /\ pad'.redis[k].item.tags = file.items[k].tags.elems
                    ELSE /\ (k \in DOMAIN pad'.redis) <=> (k \in DOMAIN pad.redis)
                         /\ k \in DOMAIN pad.redis => pad'.redis[k] = pad.redis[k]]_vars

\* C17 witness: a restore from a snapshot holding a well-formed and a
\* malformed item loaded the first and skipped the second
C17_Witness ==
    /\ ret.op = "restore"
    /\ Loadable(file)
    /\ \E k1, k2 \in DOMAIN file.items :
          /\ ValidItemData(file.items[k1])
          /\ ~ValidItemData(file.items[k2])
          /\ k1 \in DOMAIN pad.redis
          /\ k2 \notin DOMAIN pad.redis

\* The snapshot a thread that was writing the file left off from or was
\* writing: t is what thr held for the thread
PersistEnds(t) == {t.old, SnapshotFile(t.data)}

\* C16: once a persist was interrupted, by a crash at any point or by a
\* write error, the file holds the complete snapshot it held before that
\* persist or the complete snapshot that persist was writing.
C16_PersistAtomic ==
    /\ \A w \in Threads :
          (thr[w].pc = "crashed" /\ thr[w].at.pc = "opened") => file \in PersistEnds(thr[w].at)
    /\ (ret.op = "persist" /\ ret.outcome = "write_error") => file \in {ret.old, ret.new}

\* A thread is inside a mutating call: in set_item, or in persist
InMutator(w) == thr[w].pc \in {"set_item", "serialized", "opened"}

\* C18: no two threads are inside mutating calls of one store at the same
\* time, and no two threads have the file open for writing at the same time.
C18_MutatorsExclusive ==
    \A v, w \in Threads :
        v # w => /\ ~(InMutator(v) /\ InMutator(w))
                 /\ ~(thr[v].pc = "opened" /\ thr[w].pc = "opened")

\* ---------------------------------------------------------- claims, scopes
\* C11: entering a conversation scope while one is already entered raises and
\* leaves the current conversation as it was; leaving a scope, normally or
\* by an exception, leaves no conversation current.
C11_NoNestedScope ==
    [][/\ (mgret'.op = "enter" /\ current # NoObject)
            => (mgret'.outcome = "RuntimeError" /\ current' = current)
       /\ (mgret'.op = "enter" /\ current = NoObject)
            => (mgret'.outcome = "entered" /\ current' = mgret'.conversation)
       /\ mgret'.op = "exit" => current' = NoObject]_vars

\* An enter has been refused while another scope was entered
C11_Witness ==
    /\ mgret.op = "enter"
    /\ mgret.outcome = "RuntimeError"
    /\ current # NoObject
    /\ current # mgret.conversation

\* C12: the current conversation belongs to the task that entered it: a task
\* that has no scope entered can enter one whatever the other tasks have
\* entered, and what a task reads as current is the session it entered.
C12_ScopeIsTaskLocal ==
    [][/\ (mgret'.op = "enter" /\ task[mgret'.task].scope = NoObject)
            => mgret'.outcome = "entered"
       /\ mgret'.op = "get_current"
            => mgret'.conversation = task[mgret'.task].scope]_vars

\* -------------------------------------------------------- claims, managers
\* The Conversation objects of the id that the active map holds
ActiveObjects(M, id) == {c \in 1..Len(M.heap) : id \in DOMAIN M.active /\ M.active[id] = c}

\* C13: create_conversation on an id that is active returns the Conversation
\* object that is active and builds no other Conversation, History or
\* SketchPad; after any create_conversation exactly one session of that id
\* is active.
C13_CreateIdempotent ==
    [][mgret'.op = "create_conversation" =>
         /\ mgret'.id \in DOMAIN mgr.active =>
              /\ mgret'.outcome = "returned"
              /\ mgret'.conversation = mgr.active[mgret'.id]
              /\ mgr'.active = mgr.active
              /\ Len(mgr'.heap) = Len(mgr.heap)
              /\ mgr'.nctx = mgr.nctx /\ mgr'.contexts = mgr.contexts
              /\ mgr'.nskt = mgr.nskt /\ mgr'.sketches = mgr.sketches
         /\ mgret'.outcome = "returned" =>
              ActiveObjects(mgr', mgret'.id) = {mgret'.conversation}]_vars

\* A create_conversation has returned a session created earlier
C13_Witness ==
    /\ mgret.op = "create_conversation"
    /\ mgret.outcome = "returned"
    /\ mgr.heap[mgret.conversation].created_at < now
    /\ mgr.heap[mgret.conversation].last_accessed = now

\* C14: get_conversation returns a session only with the History and the
\* SketchPad that the two managers hold for the id; when one of them is not
\* obtained it returns None and the id is not active.
C14_BothOrAbsent ==
    [][mgret'.op = "get_conversation" =>
         LET id == mgret'.id
             c == mgret'.conversation
             both == id \in DOMAIN mgr'.contexts /\ id \in DOMAIN mgr'.sketches
         IN  /\ c # NoObject =>
                  /\ both
                  /\ mgr'.active[id] = c
                  /\ mgr'.heap[c].context = mgr'.contexts[id]
                  /\ mgr'.heap[c].sketch_pad = mgr'.sketches[id]
             /\ c = NoObject => id \notin DOMAIN mgr'.active
             /\ ~both => c = NoObject]_vars

\* A get_conversation obtained the History and not the SketchPad
C14_Witness ==
    /\ mgret.op = "get_conversation"
    /\ mgret.conversation = NoObject
    /\ mgret.id \in DOMAIN mgr.contexts
    /\ mgret.id \notin DOMAIN mgr.sketches

\* C15: cleanup_inactive_conversations returns, and then the sessions that
\* were idle beyond the threshold when it was called are no longer active,
\* each of them was persisted in full (History and SketchPad) by the call,
\* every other session is still active, and the count returned is the
\* number of sessions removed.
C15_CleanupPersistsAndEvicts ==
    mgret.op = "cleanup" =>
        /\ mgret.outcome = "returned"
        /\ \A id \in mgret.due : id \notin DOMAIN mgr.active /\ id \in mgret.saved
        /\ \A id \in mgret.kept : id \in DOMAIN mgr.active
        /\ mgret.count = Cardinality(mgret.due)

\* A task is inside the critical section of save_conversation or of
\* cleanup_inactive_conversations, suspended at its await
Suspended(k) == task[k].pc \in {"save_await", "cleanup_await"}

\* C19: while a task is inside the critical section of save_conversation or
\* cleanup_inactive_conversations, no create_conversation, get_conversation
\* or delete_conversation of another task changes the active-session map.
C19_ManagerSerialized ==
    [][\A k \in Tasks :
         (/\ Suspended(k)
          /\ mgret'.op \in {"create_conversation", "get_conversation", "delete_conversation"}
          /\ mgret'.task # k)
         => mgr'.active = mgr.active]_vars

\* ------------------------------------------------- claims, index and expiry
\* C25: the tag index is the exact inverse of the items' tags: key k is in
\* the index set of tag t iff an item is stored under k and t is one of its
\* tags, after any writes (overwrites included), deletes, expiries and clears.
C25_TagIndexInverse ==
    \A tg \in Tags, k \in AllKeys :
        (k \in pad.tagIndex[tg]) <=> (k \in DOMAIN pad.redis /\ tg \in pad.redis[k].item.tags)

\* SketchPadItem.is_expired at time t
is_expired(item, t) == item.expires_at # NoneInt /\ t > item.expires_at

\* C26: no read returns an item whose expires_at has passed.
C26_ExpiredNeverReturned ==
    /\ ret.op = "get_item" /\ ret.item # NoItem => ~is_expired(ret.item, now)
    /\ ret.op = "search_by_tags" => \A p \in ret.result : ~is_expired(p[2], now)

\* The fields of an item that a read may change are access_count and
\* last_accessed: a and b agree on every other field
SameButAccess(a, b) ==
    [a EXCEPT !.access_count = 0, !.last_accessed = NoneInt]
        = [b EXCEPT !.access_count = 0, !.last_accessed = NoneInt]

\* C27: a read changes nothing about a stored item except access_count and
\* last_accessed: every item is still stored, with the same other fields
\* and the same remaining time to live.
C27_ReadsOnlyCount ==
    [][ret'.op \in {"get_item", "search_by_tags", "persist", "roundtrip"} =>
         \A k \in DOMAIN pad.redis :
             /\ k \in DOMAIN pad'.redis
             /\ SameButAccess(pad.redis[k].item, pad'.redis[k].item)
             /\ pad'.redis[k].expire = pad.redis[k].expire]_vars

\* ------------------------------------------------------------ claims, saves
\* C22: an explicit save reports success only when the snapshot was written:
\* save_sketch_pad, save_context and save_conversation return True only
\* after a call in which every file they are to write was written.
C22_SaveReportsFailure ==
    mgret.op \in {"save_one", "save_conversation"} => (mgret.result => mgret.written)

\* C30: save_all_sketch_pads and save_all_contexts terminate: a call that has
\* stores left to save does not wait for a lock that it holds itself; and
\* the count returned is the number of stores of the manager.
C30_SaveAllTerminates ==
    /\ \A k \in Tasks :
          (task[k].pc = "save_all" /\ task[k].todo # {}) => mgr.locks[task[k].which] # k
    /\ mgret.op = "save_all" =>
          mgret.count <= Cardinality(IF mgret.which = "sketch" THEN DOMAIN mgr.sketches
                                     ELSE DOMAIN mgr.contexts)

\* ------------------------------------------------------ claims, compaction
\* The length the history has once the call has appended its messages
Grown == Len(ctx.history) + (IF cret'.op = "add_message" THEN 1 ELSE Len(cret'.appended))

C28_TurnStoredOnceInOrder ==
    agent.pc = "done" => stored = agent.want

\* C21: a read of the pad (get_item, exists, keys) made while the fast tier
\* cannot be reached returns an absent or empty result and raises nothing.
C21_ReadsDoNotRaise ==
    (ret.op = "read" /\ ~ret.up) => ret.exc = NoException

\* C23: an operation on the pad of one session reads, returns or changes
\* only items that this session wrote, never an item of the other session.
C23_SessionsIsolated ==
    ret.op = "shared" => ret.touched \subseteq {ret.id}

C31_NoLoopDeadlock ==
    \A k \in Tasks :
        task[k].pc = "ctx_wait" /\ mgr.locks.context # NoneStr
            => task[mgr.locks.context].thread # task[k].thread

\* ------------------------------------------------- claims, deleted session
\* C32: the first read of a pad created under an id right after the pad of
\* that id was deleted returns no item.
C32_DeletedSessionStartsEmpty ==
    [][(ret.op = "create_sketch_pad" /\ ret.after = "delete_sketch_pad" /\ ret'.op = "get_item")
          => ret'.item = NoItem]_vars

\* ------------------------------------------------- claims, saved history
\* The length of the history saved in the file (get_full_saved_history)
SavedLen(F) == IF F.exists THEN Len(F.history) ELSE 0

\* C33: a call of add_message or sync_with_external_history that saves and
\* does not compact adds to the saved history one entry for each message it
\* stored, so that the file holds each stored message once.
C33_SavedOnceEach ==
    [][(cret'.op \in {"add_message", "sync"} /\ cret'.outcome = "returned"
            /\ ~cret'.compacted /\ ctx.save_to_file)
          => SavedLen(ctxFile') = SavedLen(ctxFile)
                 + (IF cret'.op = "add_message" THEN 1 ELSE Len(cret'.appended))]_vars

\* ------------------------------------------------------- claims, keys()
\* C34: keys() returns exactly the keys of the items the pad holds, and no
\* name of a tag-index set.
C34_KeysAreItemKeys ==
    (ret.op = "read" /\ ret.name = "keys" /\ ret.up) => ret.result = DOMAIN pad.redis

\* ------------------------------------------------ claims, absent session
\* C35: a get_conversation that returns None leaves the active maps of the
\* ConversationManager, the ContextManager and the SketchManager as they
\* were.
C35_AbsentGetChangesNothing ==
    [][(mgret'.op = "get_conversation" /\ mgret'.conversation = NoObject)
          => /\ mgr'.active = mgr.active
             /\ mgr'.contexts = mgr.contexts
             /\ mgr'.sketches = mgr.sketches]_vars

\* --------------------------------------------------- claims, tool messages
\* The ids of the tool calls of a stored message
CallIds(m) == IF SeqTruthy(m.tool_calls) THEN {m.tool_calls[n] : n \in 1..Len(m.tool_calls)} ELSE {}

\* C36: every stored message of role tool names, as its tool_call_id, a tool
\* call of an assistant message stored before it.
C36_ToolAnswersEarlierCall ==
    \A i \in 1..Len(stored) :
        stored[i].role = "tool" =>
            \E j \in 1..(i - 1) : /\ stored[j].role = "assistant"
                                  /\ stored[i].tool_call_id \in CallIds(stored[j])

\* ------------------------------------------------- claims, content search
\* The text the search is to look at: the key, the summary and the value
ClaimedMatch(key, item, query) ==
    Lower(query) \in {Lower(w) : w \in {key, item.value}
                                    \cup (IF item.summary # NoneStr THEN {item.summary} ELSE {})}

\* a comes before b in the ranking: more accesses, then more recent
RanksBefore(a, b) ==
    \/ a.access_count > b.access_count
    \/ a.access_count = b.access_count /\ Recency(a) >= Recency(b)

\* C37: search_by_content(query, limit) returns at most limit entries, each
\* an item whose key, summary or value contains the query without regard to
\* case, in the order of access_count descending and then recency descending.
C37_ContentSearchRanked ==
    ret.op = "search_by_content" =>
        /\ Len(ret.result) <= ret.limit
        /\ \A i \in 1..Len(ret.result) :
               ClaimedMatch(ret.result[i][1], ret.result[i][2], ret.query)
        /\ \A i, j \in 1..Len(ret.result) :
               i < j => RanksBefore(ret.result[i][2], ret.result[j][2])

\* ------------------------------------------------- claims, history search
\* The messages of a history whose content contains the query
Matching(H, query) ==
    SelectSeq(H, LAMBDA m : /\ m.content # NoneSeq
                            /\ Lower(query) \in {Lower(m.content[n]) : n \in 1..Len(m.content)})

\* The last n entries of a sequence, all of them when it has fewer
LastN(s, n) == IF Len(s) <= n THEN s ELSE SubSeq(s, Len(s) - n + 1, Len(s))

\* C38: search_history(query, limit) returns, oldest first, the limit most
\* recent messages whose content contains the query without regard to case,
\* whatever the history holds, a message with content None included.
C38_SearchHistoryRecent ==
    cret.op = "search_history" =>
        /\ cret.outcome = "returned"
        /\ cret.result = LastN(Matching(ctx.history, cret.query), cret.limit)
====
